---- MODULE Spec2Model ----
\* Model of the chat store of alertmanager-bot (pkg/telegram/chats.go) over a
\* libkv key-value backend, of the subscription-record operations the bot
\* declares in BotChatStore, and of the bot itself: the dispatcher of inbound
\* messages, the relay of alert events, truncateMessage, parseMuteCommand, the
\* administrators configured with NewBot, and Run with its two actors (the
\* message loop and sendWebhook) under cancellation (SpecRun) and, never
\* cancelled and fairly scheduled, for progress (SpecServe).
EXTENDS Integers, Sequences, FiniteSets, TLC

\* ------------------------------------------------------------------ bounds
\* chat identifiers are 1..MaxChatID
MaxChatID == 2
\* number of store operations of one behaviour
MaxOps == 3
\* number of chats in the category list a behaviour of the index starts with
MaxMembers == 3

ChatIDs == 1..MaxChatID
Usernames == {"test", "tess"}
\* category names used with the membership index
IndexProjects == {"pr1"}
IndexEnvironments == {"env1"}
\* names and universes used with the subscription records
EnvironmentNames == {"env1", "env2", "env3"}
ProjectNames == {"pr1", "pr2"}
EnvironmentUniverses == {{"env1", "env2", "env3"}, {"env1", "env2"}}
ProjectUniverses == {{"pr1", "pr2"}, {"pr1"}}

VARIABLES
    kv,        \* the libkv backend: a function from the keys present to their values
    last,      \* the last store call: its name, arguments, returned error and result
    nops,      \* number of store calls made so far
    added,     \* history: identifiers added with Add/AddChat and not removed since
    member,    \* history: per category key, identifiers added and not removed, in order of first insertion
    universe,  \* history: per identifier, the universes its record was created with
    webhooks,  \* the channel of alert events from the webhook
    relay,     \* what sendWebhook did with the last event it took
    counters,  \* commandsCounter: the count of every label
    proc,      \* what process did with the last message it was given
    fn,        \* the last call of a pure function: its arguments and result
    nin,       \* number of events and messages taken in so far
    messages,  \* the channel of messages that telegram.Listen fills
    done,      \* ctx.Done() is closed
    task,      \* the two actors of Run: where each stands and what it holds
    trace      \* history: what each of the two actors did, in order

\* the variables of the store and of its history
storeVars == <<kv, last, nops, added, member, universe>>
\* the variables of the bot
runVars == <<messages, done, task, trace>>
botVars == <<webhooks, relay, counters, proc, fn, nin, messages, done, task, trace>>

vars == <<kv, last, nops, added, member, universe, webhooks, relay, counters, proc, fn, nin,
         messages, done, task, trace>>

\* ------------------------------------------------------------ Go values
\* error values returned by the store
Nil == "nil"
ErrKeyNotFound == "store.ErrKeyNotFound"
ErrUnmarshal == "json.UnmarshalTypeError"
ErrNotFound == "NotFound"

\* a telebot.Chat: the fields the program and its JSON encoding use
Chat(id, type, title, username) ==
    [ID |-> id, Type |-> type, Title |-> title, Username |-> username]

\* the zero value of telebot.Chat
ZeroChat == Chat(0, "", "", "")

\* the chat of a user with the bot
PrivateChat(id, username) == Chat(id, "private", "", username)

\* the chat of a group: it has a title and no username
GroupChat(id, title) == Chat(id, "group", title, "")

\* Chat.IsGroupChat(): every chat that is not a private one
IsGroupChat(c) == c.Type # "private"

Chats == {PrivateChat(id, u) : id \in ChatIDs, u \in Usernames}

\* the chats passed to the calls that read nothing but the identifier
ChatsByID == {c \in Chats : c.Username = "test"}

\* ------------------------------------------------------------- encoding
\* json.Marshal of a telebot.Chat: a JSON object
MarshalChat(c) == [kind |-> "object", obj |-> c, items |-> <<>>]

\* json.Marshal of a [][]byte: null for the nil slice (a slice that was
\* declared with var and never appended to), otherwise a JSON array with one
\* (base64) string per element
MarshalBytes(s) ==
    IF s = <<>> THEN [kind |-> "null", obj |-> ZeroChat, items |-> <<>>]
    ELSE [kind |-> "array", obj |-> ZeroChat, items |-> s]

\* the member of a JSON object that a field is decoded from; a field whose
\* member the object does not have keeps its zero value
Member(obj, name, zero) == IF name \in DOMAIN obj THEN obj[name] ELSE zero

\* json.Unmarshal(v, &chat) into a fresh telebot.Chat: a JSON object fills the
\* fields it names and its other members are ignored, null leaves the zero
\* value, an array is a type error
UnmarshalChat(v) ==
    CASE v.kind = "object" ->
            [err |-> Nil,
             chat |-> Chat(Member(v.obj, "ID", 0), Member(v.obj, "Type", ""),
                           Member(v.obj, "Title", ""), Member(v.obj, "Username", ""))]
      [] v.kind = "null" -> [err |-> Nil, chat |-> ZeroChat]
      [] OTHER -> [err |-> ErrUnmarshal, chat |-> ZeroChat]

\* json.Unmarshal(v, &chatsInBytes) into a nil [][]byte: an array gives its
\* elements, null leaves the nil slice, an object is a type error
UnmarshalBytes(v) ==
    CASE v.kind = "array" -> [err |-> Nil, items |-> v.items]
      [] v.kind = "null" -> [err |-> Nil, items |-> <<>>]
      [] OTHER -> [err |-> ErrUnmarshal, items |-> <<>>]

\* bytes that are not JSON: json.Unmarshal returns a syntax error for them
InvalidJSON == [kind |-> "invalid", obj |-> ZeroChat, items |-> <<>>]

\* ----------------------------------------------------------------- keys
\* a key "a/b/c" is the sequence of its segments
telegramChatsDirectory == <<"telegram", "chats">>
telegramProjectsDirectory == <<"telegram", "chats", "projects">>
telegramEnvironmentsDirectory == <<"telegram", "chats", "environments">>

\* the chat key built from the username instead of the identifier
ChatKey_FromUsername(c) == Append(telegramChatsDirectory, c.Username)

\* fmt.Sprintf("%s/%d", telegramChatsDirectory, c.ID)
ChatKey(c) == Append(telegramChatsDirectory, ToString(c.ID))
\* fmt.Sprintf("%s/%s", telegramProjectsDirectory, projectName)
ProjectKey(projectName) == Append(telegramProjectsDirectory, projectName)
\* fmt.Sprintf("%s/%s", telegramEnvironmentsDirectory, environmentName)
EnvironmentKey(environmentName) == Append(telegramEnvironmentsDirectory, environmentName)

CategoryKeys ==
    {ProjectKey(p) : p \in IndexProjects} \cup {EnvironmentKey(e) : e \in IndexEnvironments}

\* ----------------------------------------------------------- kv backend
\* the segments of the model's keys in byte order
SegmentOrder ==
    [i \in 1..MaxChatID |-> ToString(i)]
        \o <<"chats", "env1", "env2", "env3", "environments", "pr1", "pr2", "projects", "telegram">>

SegmentRank(s) == CHOOSE i \in 1..Len(SegmentOrder) : SegmentOrder[i] = s

RECURSIVE KeyLeq(_, _)
KeyLeq(a, b) ==
    IF a = <<>> THEN TRUE
    ELSE IF b = <<>> THEN FALSE
    ELSE IF Head(a) = Head(b) THEN KeyLeq(Tail(a), Tail(b))
    ELSE SegmentRank(Head(a)) < SegmentRank(Head(b))

\* the keys of S in byte order: the i-th is the one with i keys of S up to it
SortKeys(S) ==
    [i \in 1..Cardinality(S) |->
        CHOOSE k \in S : Cardinality({y \in S : KeyLeq(y, k)}) = i]

HasPrefix(key, prefix) ==
    /\ Len(key) >= Len(prefix)
    /\ SubSeq(key, 1, Len(prefix)) = prefix

\* kv.Get(key): the value, or ErrKeyNotFound
kvGet(s, key) ==
    IF key \in DOMAIN s THEN [err |-> Nil, Value |-> s[key]]
    ELSE [err |-> ErrKeyNotFound, Value |-> MarshalBytes(<<>>)]

\* kv.Put(key, value, nil): creates or overwrites the key
kvPut(s, key, value) ==
    [k \in DOMAIN s \cup {key} |-> IF k = key THEN value ELSE s[k]]

\* kv.Delete(key): takes the key out. For a key that is not there the
\* backends of libkv differ: consul, etcd and boltdb without its bucket
\* (nothing was written yet) answer ErrKeyNotFound, boltdb with its bucket
\* answers nil; absent is the answer of the backend in use
kvDelete(s, key, absent) ==
    IF key \in DOMAIN s
    THEN [err |-> Nil, kv |-> [k \in DOMAIN s \ {key} |-> s[k]]]
    ELSE [err |-> absent, kv |-> s]

\* kv.List(prefix): the values of all keys below the prefix, in key order;
\* the backends of libkv return ErrKeyNotFound when no key is below the prefix
kvList(s, prefix) ==
    LET keys == SortKeys({k \in DOMAIN s : HasPrefix(k, prefix)})
    IN IF keys = <<>> THEN [err |-> ErrKeyNotFound, kvPairs |-> <<>>]
       ELSE [err |-> Nil, kvPairs |-> [i \in 1..Len(keys) |-> s[keys[i]]]]

\* ------------------------------------------------------------ ChatStore
RECURSIVE ListLoop(_, _)
ListLoop(kvPairs, chats) ==
    IF kvPairs = <<>> THEN [err |-> Nil, chats |-> chats]
    ELSE LET u == UnmarshalChat(Head(kvPairs))
         IN IF u.err # Nil THEN [err |-> u.err, chats |-> <<>>]
            ELSE ListLoop(Tail(kvPairs), Append(chats, u.chat))

\* ChatStore.List
List(s) ==
    LET l == kvList(s, telegramChatsDirectory)
    IN IF l.err # Nil THEN [err |-> l.err, chats |-> <<>>]
       ELSE ListLoop(l.kvPairs, <<>>)

\* ChatStore.Add
Add(s, c) == [err |-> Nil, kv |-> kvPut(s, ChatKey(c), MarshalChat(c))]

\* ChatStore.Remove: return s.kv.Delete(key), the answer of the backend as
\* it is
Remove(s, c, absent) == kvDelete(s, ChatKey(c), absent)

\* RemoveLoop putting every entry it keeps in front of the ones kept before
RECURSIVE RemoveLoop_KeepsInFront(_, _, _)
RemoveLoop_KeepsInFront(chatsInBytes, c, chatsToSave) ==
    IF chatsInBytes = <<>> THEN [stop |-> FALSE, chatsToSave |-> chatsToSave]
    ELSE LET u == UnmarshalChat(Head(chatsInBytes))
         IN IF u.err # Nil THEN [stop |-> TRUE, chatsToSave |-> <<>>]
            ELSE RemoveLoop_KeepsInFront(Tail(chatsInBytes), c,
                            IF u.chat.ID # c.ID
                            THEN <<MarshalChat(u.chat)>> \o chatsToSave
                            ELSE chatsToSave)

\* the loop of RemoveChat: keeps, re-encoded, the entries of another identifier;
\* an entry that does not decode ends the call with a nil error and no write
RECURSIVE RemoveLoop(_, _, _)
RemoveLoop(chatsInBytes, c, chatsToSave) ==
    IF chatsInBytes = <<>> THEN [stop |-> FALSE, chatsToSave |-> chatsToSave]
    ELSE LET u == UnmarshalChat(Head(chatsInBytes))
         IN IF u.err # Nil THEN [stop |-> TRUE, chatsToSave |-> <<>>]
            ELSE RemoveLoop(Tail(chatsInBytes), c,
                            IF u.chat.ID # c.ID
                            THEN Append(chatsToSave, MarshalChat(u.chat))
                            ELSE chatsToSave)

\* RemoveChat without the special case for a missing key
RemoveChat_NoMissingKeyCase(s, c, key) ==
    LET g == kvGet(s, key)
    IN IF g.err # Nil THEN [err |-> g.err, kv |-> s]
       ELSE LET b == UnmarshalBytes(g.Value)
            IN IF b.err # Nil THEN [err |-> b.err, kv |-> s]
               ELSE LET r == RemoveLoop(b.items, c, <<>>)
                    IN IF r.stop THEN [err |-> Nil, kv |-> s]
                       ELSE [err |-> Nil,
                             kv |-> kvPut(s, key, MarshalBytes(r.chatsToSave))]

\* RemoveChat(s, c, key)
RemoveChat(s, c, key) ==
    LET g == kvGet(s, key)
    IN IF g.err = ErrKeyNotFound THEN [err |-> Nil, kv |-> s]
       ELSE IF g.err # Nil THEN [err |-> g.err, kv |-> s]
       ELSE LET b == UnmarshalBytes(g.Value)
            IN IF b.err # Nil THEN [err |-> b.err, kv |-> s]
               ELSE LET r == RemoveLoop(b.items, c, <<>>)
                    IN IF r.stop THEN [err |-> Nil, kv |-> s]
                       ELSE [err |-> Nil,
                             kv |-> kvPut(s, key, MarshalBytes(r.chatsToSave))]

RECURSIVE GetLoop(_, _)
GetLoop(chatsInBytes, chatsForKey) ==
    IF chatsInBytes = <<>> THEN [err |-> Nil, chats |-> chatsForKey]
    ELSE LET u == UnmarshalChat(Head(chatsInBytes))
         IN IF u.err # Nil THEN [err |-> u.err, chats |-> <<>>]
            ELSE GetLoop(Tail(chatsInBytes), Append(chatsForKey, u.chat))

\* GetChatsForKey(s, key)
GetChatsForKey(s, key) ==
    LET g == kvGet(s, key)
    IN IF g.err = ErrKeyNotFound THEN [err |-> Nil, chats |-> <<>>]
       ELSE IF g.err # Nil THEN [err |-> g.err, chats |-> <<>>]
       ELSE LET b == UnmarshalBytes(g.Value)
            IN IF b.err # Nil THEN [err |-> b.err, chats |-> <<>>]
               ELSE GetLoop(b.items, <<>>)

\* chatContains comparing whole chats instead of identifiers
chatContains_WholeChat(chats, chat) == \E i \in 1..Len(chats) : chats[i] = chat

\* chatContains(chats, chat)
chatContains(chats, chat) == \E i \in 1..Len(chats) : chats[i].ID = chat.ID

\* userExists(c, chats): false with an error when an entry does not decode
userExists(c, chats) ==
    LET g == GetLoop(chats, <<>>)
    IN IF g.err # Nil THEN [res |-> FALSE, err |-> g.err]
       ELSE [res |-> chatContains(g.chats, c), err |-> Nil]

\* AddUserByKey(s, c, key)
AddUserByKey(s, c, key) ==
    LET chatToSave == MarshalChat(c)
        g == kvGet(s, key)
    IN IF g.err = ErrKeyNotFound
       THEN [err |-> Nil, kv |-> kvPut(s, key, MarshalBytes(<<chatToSave>>))]
       ELSE IF g.err # Nil THEN [err |-> g.err, kv |-> s]
       ELSE LET b == UnmarshalBytes(g.Value)
            IN IF b.err # Nil THEN [err |-> b.err, kv |-> s]
               ELSE IF userExists(c, b.items).res THEN [err |-> Nil, kv |-> s]
               ELSE [err |-> Nil,
                     kv |-> kvPut(s, key, MarshalBytes(Append(b.items, chatToSave)))]

\* -------------------------------------------------- subscription records
\* ChatInfo: the chat and its four category sets
ChatInfo(c, alertEnvs, mutedEnvs, alertPrs, mutedPrs) ==
    [Chat |-> c,
     AlertEnvironments |-> alertEnvs, MutedEnvironments |-> mutedEnvs,
     AlertProjects |-> alertPrs, MutedProjects |-> mutedPrs]

ZeroChatInfo == ChatInfo(ZeroChat, {}, {}, {}, {})

\* the persisted form of a ChatInfo: a JSON object
MarshalChatInfo(info) == [kind |-> "object", obj |-> info, items |-> <<>>]

\* the ChatInfo decoded from a persisted value: the members the value has,
\* and the zero value for the others
UnmarshalChatInfo(v) ==
    ChatInfo(Member(v.obj, "Chat", ZeroChat),
             Member(v.obj, "AlertEnvironments", {}), Member(v.obj, "MutedEnvironments", {}),
             Member(v.obj, "AlertProjects", {}), Member(v.obj, "MutedProjects", {}))

\* GetChatInfo(chat)
GetChatInfo(s, c) ==
    LET g == kvGet(s, ChatKey(c))
    IN IF g.err # Nil THEN [err |-> ErrNotFound, info |-> ZeroChatInfo]
       ELSE [err |-> Nil, info |-> UnmarshalChatInfo(g.Value)]

\* AddChat(chat, allEnvironments, allProjects)
AddChat(s, c, allEnvironments, allProjects) ==
    [err |-> Nil,
     kv |-> kvPut(s, ChatKey(c),
                  MarshalChatInfo(ChatInfo(c, allEnvironments, {}, allProjects, {})))]

\* MuteEnvironments that starts from an empty record when none is stored
MuteEnvironments_CreatesRecord(s, c, toMute, allEnvironments) ==
    LET g == GetChatInfo(s, c)
        info == IF g.err # Nil THEN ChatInfo(c, {}, {}, {}, {}) ELSE g.info
        moved == toMute \cap allEnvironments
    IN [err |-> Nil,
        kv |-> kvPut(s, ChatKey(c),
                     MarshalChatInfo([info EXCEPT
                         !.AlertEnvironments = @ \ moved,
                         !.MutedEnvironments = @ \cup moved]))]

\* MuteEnvironments that moves every name of toMute, in the universe or not
MuteEnvironments_NoUniverseCheck(s, c, toMute, allEnvironments) ==
    LET g == GetChatInfo(s, c)
    IN IF g.err # Nil THEN [err |-> g.err, kv |-> s]
       ELSE [err |-> Nil,
             kv |-> kvPut(s, ChatKey(c),
                          MarshalChatInfo([g.info EXCEPT
                              !.AlertEnvironments = @ \ toMute,
                              !.MutedEnvironments = @ \cup toMute]))]

\* MuteEnvironments(chat, toMute, allEnvironments)
MuteEnvironments(s, c, toMute, allEnvironments) ==
    LET g == GetChatInfo(s, c)
        moved == toMute \cap allEnvironments
    IN IF g.err # Nil THEN [err |-> g.err, kv |-> s]
       ELSE [err |-> Nil,
             kv |-> kvPut(s, ChatKey(c),
                          MarshalChatInfo([g.info EXCEPT
                              !.AlertEnvironments = @ \ moved,
                              !.MutedEnvironments = @ \cup moved]))]

\* MuteProjects(chat, toMute, allProjects)
MuteProjects(s, c, toMute, allProjects) ==
    LET g == GetChatInfo(s, c)
        moved == toMute \cap allProjects
    IN IF g.err # Nil THEN [err |-> g.err, kv |-> s]
       ELSE [err |-> Nil,
             kv |-> kvPut(s, ChatKey(c),
                          MarshalChatInfo([g.info EXCEPT
                              !.AlertProjects = @ \ moved,
                              !.MutedProjects = @ \cup moved]))]

\* UnmuteEnvironment that only adds the name to the alerting set
UnmuteEnvironment_KeepsMuted(s, c, name, allEnvironments) ==
    LET g == GetChatInfo(s, c)
    IN IF g.err # Nil THEN [err |-> g.err, kv |-> s]
       ELSE IF name \notin allEnvironments THEN [err |-> Nil, kv |-> s]
       ELSE [err |-> Nil,
             kv |-> kvPut(s, ChatKey(c),
                          MarshalChatInfo([g.info EXCEPT
                              !.AlertEnvironments = @ \cup {name}]))]

\* UnmuteEnvironment that moves the name without looking at the universe
UnmuteEnvironment_NoUniverseCheck(s, c, name, allEnvironments) ==
    LET g == GetChatInfo(s, c)
    IN IF g.err # Nil THEN [err |-> g.err, kv |-> s]
       ELSE [err |-> Nil,
             kv |-> kvPut(s, ChatKey(c),
                          MarshalChatInfo([g.info EXCEPT
                              !.MutedEnvironments = @ \ {name},
                              !.AlertEnvironments = @ \cup {name}]))]

\* UnmuteEnvironment(chat, name, allEnvironments)
UnmuteEnvironment(s, c, name, allEnvironments) ==
    LET g == GetChatInfo(s, c)
    IN IF g.err # Nil THEN [err |-> g.err, kv |-> s]
       ELSE IF name \notin allEnvironments THEN [err |-> Nil, kv |-> s]
       ELSE [err |-> Nil,
             kv |-> kvPut(s, ChatKey(c),
                          MarshalChatInfo([g.info EXCEPT
                              !.MutedEnvironments = @ \ {name},
                              !.AlertEnvironments = @ \cup {name}]))]

\* UnmuteProject(chat, name, allProjects)
UnmuteProject(s, c, name, allProjects) ==
    LET g == GetChatInfo(s, c)
    IN IF g.err # Nil THEN [err |-> g.err, kv |-> s]
       ELSE IF name \notin allProjects THEN [err |-> Nil, kv |-> s]
       ELSE [err |-> Nil,
             kv |-> kvPut(s, ChatKey(c),
                          MarshalChatInfo([g.info EXCEPT
                              !.MutedProjects = @ \ {name},
                              !.AlertProjects = @ \cup {name}]))]

\* wrappers of ChatStore over the two category directories
AddUserToProject(s, c, projectName) == AddUserByKey(s, c, ProjectKey(projectName))
AddUserToEnvironment(s, c, environmentName) == AddUserByKey(s, c, EnvironmentKey(environmentName))
RemoveUserFromProject(s, c, projectName) == RemoveChat(s, c, ProjectKey(projectName))
RemoveUserFromEnvironment(s, c, environmentName) == RemoveChat(s, c, EnvironmentKey(environmentName))
GetUsersForProject(s, projectName) == GetChatsForKey(s, ProjectKey(projectName))
GetUsersForEnvironment(s, environmentName) == GetChatsForKey(s, EnvironmentKey(environmentName))

\* ------------------------------------------------------------- history
\* no record, or calls with differing universes since the record was created
NoUniverse == [env |-> {}, proj |-> {}, same |-> FALSE]

\* the identifiers of a category in order of first insertion
MemberAdd(m, key, id) ==
    IF \E i \in 1..Len(m[key]) : m[key][i] = id THEN m
    ELSE [m EXCEPT ![key] = Append(@, id)]

MemberRemove(m, key, id) ==
    [m EXCEPT ![key] = SelectSeq(@, LAMBDA x : x # id)]

Call(op, c, key, err, out) ==
    [op |-> op, chat |-> c, key |-> key, err |-> err, out |-> out,
     names |-> {}, envs |-> {}, projs |-> {}, pre |-> <<>>]

\* a call on a subscription record, with the store it was made on
RecordCall(op, c, names, envs, projs, err, out, pre) ==
    [op |-> op, chat |-> c, key |-> <<>>, err |-> err, out |-> out,
     names |-> names, envs |-> envs, projs |-> projs, pre |-> pre]

\* ------------------------------------------------------------ Go strings
\* a string is the sequence of its bytes, each written as a one-character string

\* strings.LastIndex(s, sep): the index from 0 of the last place where sep
\* starts in s, or -1
LastIndex(s, sep) ==
    LET P == {i \in 0..(Len(s) - Len(sep)) : \A k \in 1..Len(sep) : s[i + k] = sep[k]}
    IN IF P = {} THEN -1 ELSE CHOOSE m \in P : \A x \in P : x <= m

\* a text of n bytes with a blank line "\n\n" at each index (from 0) of seps
TextOf(n, seps) ==
    [i \in 1..n |-> IF \E p \in seps : i \in {p + 1, p + 2} THEN "\n" ELSE "a"]

\* ------------------------------------------------------- truncateMessage
\* the length above which a message is cut
MessageLimit == 4095
\* the length of the prefix in which the last blank line is looked for
SnipWindow == 4080

\* "\n<b>[SNIP]</b>"
SnipMarker == <<"\n", "<", "b", ">", "[", "S", "N", "I", "P", "]", "<", "/", "b", ">">>

\* "Message is too long... can't send.."
TooLong ==
    <<"M", "e", "s", "s", "a", "g", "e", " ", "i", "s", " ", "t", "o", "o", " ",
      "l", "o", "n", "g", ".", ".", ".", " ", "c", "a", "n", "'", "t", " ",
      "s", "e", "n", "d", ".", ".">>

\* truncateMessage that cuts at the end of the window when it finds no blank line
truncateMessage_CutsAnywhere(str) ==
    IF Len(str) > MessageLimit
    THEN LET i == LastIndex(SubSeq(str, 1, SnipWindow), <<"\n", "\n">>)
         IN IF i > 1 THEN SubSeq(str, 1, i) \o SnipMarker
            ELSE SubSeq(str, 1, SnipWindow) \o SnipMarker
    ELSE str

\* truncateMessage that looks for the last blank line of the whole text
truncateMessage_NoWindow(str) ==
    IF Len(str) > MessageLimit
    THEN LET i == LastIndex(str, <<"\n", "\n">>)
         IN IF i > 1 THEN SubSeq(str, 1, i) \o SnipMarker ELSE TooLong
    ELSE str

\* truncateMessage(str)
truncateMessage(str) ==
    IF Len(str) > MessageLimit
    THEN LET i == LastIndex(SubSeq(str, 1, SnipWindow), <<"\n", "\n">>)
         IN IF i > 1 THEN SubSeq(str, 1, i) \o SnipMarker ELSE TooLong
    ELSE str

\* no call of a pure function yet
NoCall == [name |-> "", arg |-> <<>>, res |-> <<>>]

\* ----------------------------------------------------------- sendWebhook
\* number of alert events and messages one behaviour takes in
MaxEvents == 2

\* the alert events of the model, named after what their template renders to
Events == {"one", "many", "huge", "broken"}

ErrTemplate == "template error"
ErrSend == "telegram error"

\* the rendering of many alerts, and of one alert longer than a message
ManyAlerts == TextOf(4200, {20, 50, 4100})
HugeAlert == TextOf(4200, {4100})

\* b.templates.ExecuteHTMLString(`{{ template "telegram.default" . }}`, data):
\* a short text, a long text with blank lines between the alerts, a long text
\* without a blank line, or an error
ExecuteHTMLString(w) ==
    CASE w = "one" -> [err |-> Nil, out |-> <<"a", "l", "e", "r", "t">>]
      [] w = "many" -> [err |-> Nil, out |-> ManyAlerts]
      [] w = "huge" -> [err |-> Nil, out |-> HugeAlert]
      [] OTHER -> [err |-> ErrTemplate, out |-> <<>>]

\* what sendWebhook did so far with the event it took last: the result of
\* List, the number of times the event was rendered, and the messages it sent
\* in order, each with the result of its SendMessage
RelayOutcome(w, listErr, chats, renders, renderErr, sends) ==
    [w |-> w, listErr |-> listErr, chats |-> chats, renders |-> renders,
     renderErr |-> renderErr, sends |-> sends]

NoRelay == RelayOutcome("", Nil, <<>>, 0, Nil, <<>>)

\* the store after Add of every chat of S
RECURSIVE StoreOf(_)
StoreOf(S) ==
    IF S = {} THEN <<>>
    ELSE LET c == CHOOSE x \in S : TRUE
         IN Add(StoreOf(S \ {c}), c).kv

\* the stores the relay runs on: chats added with Add, without a category
\* list, with one, or with one that was emptied again
RelayStores ==
    {StoreOf(S) : S \in SUBSET ChatsByID}
        \cup {AddUserToProject(StoreOf(S), c, p).kv :
                 S \in SUBSET ChatsByID, c \in ChatsByID, p \in IndexProjects}
        \cup {RemoveUserFromProject(AddUserToProject(StoreOf(S), c, p).kv, c, p).kv :
                 S \in SUBSET ChatsByID, c \in ChatsByID, p \in IndexProjects}

\* ------------------------------------------------------------- texts
\* the text of a message or of an option is a string; place i of a string is
\* its i-th character, counted from 1

\* the character at place i, or the empty string outside the text
CharAt(s, i) == IF i \in 1..Len(s) THEN SubSeq(s, i, i) ELSE ""

\* the strings of a sequence written one after the other
RECURSIVE Join(_)
Join(t) == IF t = <<>> THEN "" ELSE Head(t) \o Join(Tail(t))

\* strings.Replace(s, old, "", -1): s without the occurrences of old, found
\* from the left and not overlapping
RECURSIVE Replace(_, _)
Replace(s, old) ==
    IF Len(s) < Len(old) THEN s
    ELSE IF SubSeq(s, 1, Len(old)) = old
    THEN Replace(SubSeq(s, Len(old) + 1, Len(s)), old)
    ELSE Head(s) \o Replace(Tail(s), old)

\* strings.Split(s, sep) for a separator of one character: the parts between
\* the separators; a text without the separator is the one part
RECURSIVE Split(_, _)
Split(s, sep) ==
    IF \E i \in 1..Len(s) : CharAt(s, i) = sep
    THEN LET i == CHOOSE k \in 1..Len(s) :
                      CharAt(s, k) = sep /\ \A j \in 1..(k - 1) : CharAt(s, j) # sep
         IN <<SubSeq(s, 1, i - 1)>> \o Split(SubSeq(s, i + 1, Len(s)), sep)
    ELSE <<s>>

\* --------------------------------------------------------- configuration
\* b.telegram.Identity.Username
BotName == "bot"
\* the admin given to NewBot and the one added with WithExtraAdmins
Admin == 3
ExtraAdmin == 1

\* sort.Ints
RECURSIVE SortInts(_)
SortInts(a) ==
    IF a = <<>> THEN <<>>
    ELSE LET i == CHOOSE k \in 1..Len(a) : \A j \in 1..Len(a) : a[k] <= a[j]
         IN <<a[i]>> \o SortInts(SubSeq(a, 1, i - 1) \o SubSeq(a, i + 1, Len(a)))

\* WithExtraAdmins that appends the identifiers and leaves the order
WithExtraAdmins_Unsorted(admins, ids) == admins \o ids

\* WithExtraAdmins(ids...) on the admins of NewBot
WithExtraAdmins(admins, ids) == SortInts(admins \o ids)

\* b.admins
Admins == WithExtraAdmins(<<Admin>>, <<ExtraAdmin>>)

\* sort.SearchInts(a, x): the binary search of sort.Search over [i, j), for
\* the smallest index (from 0) with a[index] >= x
RECURSIVE SearchInts(_, _, _, _)
SearchInts(a, x, i, j) ==
    IF i < j
    THEN LET h == (i + j) \div 2
         IN IF a[h + 1] < x THEN SearchInts(a, x, h + 1, j)
            ELSE SearchInts(a, x, i, h)
    ELSE i

\* isAdminID(id) of a bot with the given b.admins
SearchAdmins(admins, id) ==
    LET i == SearchInts(admins, id, 0, Len(admins))
    IN i < Len(admins) /\ admins[i + 1] = id

\* isAdminID(id)
isAdminID(id) == SearchAdmins(Admins, id)

\* WithEnvironments / WithProjects on the names the bot has: the names of the
\* option without spaces, split at the commas, and "other" are appended
WithEnvironments(environments, environmentsToUse) ==
    (environments \o Split(Replace(environmentsToUse, " "), ",")) \o <<"other">>
WithProjects(projects, projectsToUse) ==
    (projects \o Split(Replace(projectsToUse, " "), ",")) \o <<"other">>

\* b.environments and b.projects of a bot made by NewBot, which has no names,
\* with the options "env1, env2,env3" and "pr1,pr2"
BotEnvironments == WithEnvironments(<<>>, "env1, env2,env3")
BotProjects == WithProjects(<<>>, "pr1,pr2")

\* ------------------------------------------------------------- process
\* the commands map of Run
commands ==
    [t \in {"/start", "/stop", "/help", "/chats", "/status", "/alerts", "/silences",
            "/mute", "/mute_del", "/environments", "/projects"} |->
        CASE t = "/start" -> "handleStart"
          [] t = "/stop" -> "handleStop"
          [] t = "/help" -> "handleHelp"
          [] t = "/chats" -> "handleChats"
          [] t = "/status" -> "handleStatus"
          [] t = "/alerts" -> "handleAlerts"
          [] t = "/silences" -> "handleSilences"
          [] t = "/mute" -> "handleMute"
          [] t = "/mute_del" -> "handleMuteDel"
          [] t = "/environments" -> "handleEnvironments"
          [] t = "/projects" -> "handleProjects"]

\* fmt.Sprintf("@%s", b.telegram.Identity.Username)
commandSuffix == "@" \o BotName

\* the token that is looked up: the text with only a suffix at its very end removed
CommandToken_TrailingOnly(text) ==
    LET n == Len(text)
        m == Len(commandSuffix)
        cut == IF n >= m /\ SubSeq(text, n - m + 1, n) = commandSuffix
               THEN SubSeq(text, 1, n - m) ELSE text
    IN Split(cut, " ")[1]

\* the token that is looked up: strings.Replace(message.Text, commandSuffix,
\* "", -1), then strings.Split(text, " ")[0]
CommandToken(text) == Split(Replace(text, commandSuffix), " ")[1]

\* commandsCounter.WithLabelValues(label).Inc()
Inc(cnt, label) ==
    IF label \in DOMAIN cnt THEN [cnt EXCEPT ![label] = @ + 1]
    ELSE [l \in DOMAIN cnt \cup {label} |-> IF l = label THEN 1 ELSE cnt[l]]

\* the value of a counter; a label that was never used counts 0
Count(cnt, label) == IF label \in DOMAIN cnt THEN cnt[label] ELSE 0

\* b.telegram.SendMessage(chat, ...): the message and the values formatted into it
Reply(chat, msg, args) == [chat |-> chat, msg |-> msg, args |-> args]

\* what the alertmanager and the templates answer to a handler: an error,
\* nothing to list, something to list, or something the template fails on
AlertmanagerAnswers == {"error", "none", "some", "untemplatable"}

\* the name handleChats lists a chat with: the title of a group chat, the
\* username of another
ListedName(chat) == IF IsGroupChat(chat) THEN chat.Title ELSE chat.Username

\* the handlers: the messages each one sends; none of them writes to the store
Handle(handler, message, s, am) ==
    CASE handler = "handleStart" ->
            <<Reply(message.Chat, "responseStart", <<message.Sender.FirstName>>)>>
      [] handler = "handleStop" ->
            <<Reply(message.Chat, "responseStop", <<message.Sender.FirstName>>)>>
      [] handler = "handleHelp" ->
            <<Reply(message.Chat, "responseHelp", <<>>)>>
      [] handler = "handleChats" ->
            LET l == List(s)
            IN IF l.err # Nil
               THEN <<Reply(message.Chat, "I can't list the subscribed chats.", <<>>)>>
               ELSE <<Reply(message.Chat, "Currently these chat have subscribed:",
                            [i \in 1..Len(l.chats) |-> ListedName(l.chats[i])])>>
      [] handler = "handleStatus" ->
            IF am = "error"
            THEN <<Reply(message.Chat, "failed to get status...", <<>>)>>
            ELSE <<Reply(message.Chat, "*AlertManager*", <<>>)>>
      [] handler = "handleAlerts" ->
            IF am = "error"
            THEN <<Reply(message.Chat, "failed to list alerts...", <<>>)>>
            ELSE IF am = "none"
            THEN <<Reply(message.Chat, "No alerts right now!", <<>>)>>
            ELSE IF am = "untemplatable" THEN <<>>
            ELSE <<Reply(message.Chat, "alerts",
                         truncateMessage(ExecuteHTMLString("one").out))>>
      [] handler = "handleSilences" ->
            IF am = "error"
            THEN <<Reply(message.Chat, "failed to list silences...", <<>>)>>
            ELSE IF am = "none"
            THEN <<Reply(message.Chat, "No silences right now.", <<>>)>>
            ELSE <<Reply(message.Chat, "silences", <<>>)>>
      [] handler = "handleMute" ->
            <<Reply(message.Chat,
                    "You were successfully subscribed to environments and/or projects",
                    <<>>)>>
      [] handler = "handleMuteDel" -> <<>>
      [] handler = "handleEnvironments" ->
            <<Reply(message.Chat, "The following environments are available: %s",
                    BotEnvironments)>>
      [] handler = "handleProjects" ->
            <<Reply(message.Chat, "The following projects are available: %s",
                    BotProjects)>>

\* handleStart with the call b.chats.Add(message.Chat) that the source has
\* commented out
handleStart_Subscribes(message, s) == Add(s, message.Chat).kv

\* the store after handleStart: the handler sends the welcome and logs
handleStart(message, s) == s

\* the store after handleStop: the handler sends the farewell and logs
handleStop(message, s) == s

\* the store after a handler: the calls of the store in handleStart, handleStop
\* and handleMute are commented out, handleChats only lists
StoreAfter(handler, message, s) ==
    CASE handler = "handleStart" -> handleStart(message, s)
      [] handler = "handleStop" -> handleStop(message, s)
      [] OTHER -> s

ErrDropped == "dropped message from forbidden sender"

\* no message was given to a handler
NoMessage ==
    [Service |-> FALSE, Sender |-> [ID |-> 0, FirstName |-> ""], Chat |-> ZeroChat,
     Text |-> ""]

\* what process did up to a place of its code: whether it returned, its error,
\* the chats it sent the typing action to, the messages of the handler (those
\* it is about to send, or has sent), the handler it called and with which
\* message, and the counters and the store at that place
Processed(returned, err, typing, replies, handler, arg, cnt, s) ==
    [returned |-> returned, err |-> err, typing |-> typing, replies |-> replies,
     handler |-> handler, arg |-> arg, counters |-> cnt, kv |-> s]

\* message.IsService(): the message reports a change of the chat
IsService(message) == message.Service

\* the sender is not an admin; dropped without counting
Dropped_NotCounted(message, s, cnt) ==
    Processed(TRUE, ErrDropped, <<>>, <<>>, "", NoMessage, cnt, s)

\* the sender is not an admin
Dropped(message, s, cnt) ==
    Processed(TRUE, ErrDropped, <<>>, <<>>, "", NoMessage, Inc(cnt, "dropped"), s)

\* the token is no command; counted without an answer
Incomprehensible_NoAnswer(message, s, cnt) ==
    Processed(TRUE, Nil, <<message.Chat>>, <<>>, "", NoMessage,
              Inc(cnt, "incomprehensible"), s)

\* the token is no command: counted, and the answer that is about to be sent
Incomprehensible(message, s, cnt) ==
    Processed(FALSE, Nil, <<message.Chat>>,
              <<Reply(message.Chat, "Sorry, I don't understand...", <<>>)>>,
              "", NoMessage, Inc(cnt, "incomprehensible"), s)

\* the checks of process with the sender looked at before the service message
processChecks_SenderFirst(message, typingErr, s, cnt) ==
    IF ~isAdminID(message.Sender.ID) THEN Dropped(message, s, cnt)
    ELSE IF IsService(message)
    THEN Processed(TRUE, Nil, <<>>, <<>>, "", NoMessage, cnt, s)
    ELSE Processed(typingErr # Nil, typingErr, <<message.Chat>>, <<>>, "", NoMessage, cnt, s)

\* process(message) from its start to the return of SendChatAction, its
\* first call that waits for the network: a service message and a message of
\* a sender who is no admin end it before the call; typingErr is the result
\* of the call, and an error ends process
processChecks(message, typingErr, s, cnt) ==
    IF IsService(message) THEN Processed(TRUE, Nil, <<>>, <<>>, "", NoMessage, cnt, s)
    ELSE IF ~isAdminID(message.Sender.ID) THEN Dropped(message, s, cnt)
    ELSE Processed(typingErr # Nil, typingErr, <<message.Chat>>, <<>>, "", NoMessage, cnt, s)

\* the results SendChatAction can have for a message: process does not call
\* it for a service message or for a sender who is no admin
TypingResults(message) ==
    IF IsService(message) \/ ~isAdminID(message.Sender.ID) THEN {Nil}
    ELSE {Nil, ErrSend}

\* the handlers that start with a call that waits for an answer: of the
\* store (b.chats.List) or of the alertmanager
CallingHandlers == {"handleChats", "handleStatus", "handleAlerts", "handleSilences"}

\* process(message) from the return of SendChatAction to its next call that
\* waits: the token is looked up and counted and the handler is called; a
\* handler of CallingHandlers is then inside its first call; any other has
\* its message ready to send, as has process for a token that is no command,
\* or has sent nothing, and process has returned
processLookup(message, s, cnt) ==
    LET text == CommandToken(message.Text)
    IN IF text \notin DOMAIN commands THEN Incomprehensible(message, s, cnt)
       ELSE IF commands[text] \in CallingHandlers
       THEN Processed(FALSE, Nil, <<message.Chat>>, <<>>, commands[text], message,
                      Inc(cnt, text), s)
       ELSE LET replies == Handle(commands[text], message, s, "none")
            IN Processed(replies = <<>>, Nil, <<message.Chat>>, replies,
                         commands[text], message, Inc(cnt, text),
                         StoreAfter(commands[text], message, s))

\* ------------------------------------------------------ parseMuteCommand
\* \w of the regular expressions: the characters [0-9A-Za-z_]
WordCharacters == "0123456789ABCDEFGHIJKLMNOPQRSTUVWXYZ_abcdefghijklmnopqrstuvwxyz"
WordChars == {SubSeq(WordCharacters, i, i) : i \in 1..Len(WordCharacters)}

\* \s of the regular expressions: the characters [\t\n\f\r ]
Whitespace == {" ", "\t", "\n", "\f", "\r"}

\* a literal from place i: the place behind it, or 0 when it does not stand there
Literal(text, i, lit) ==
    IF i >= 1 /\ i + Len(lit) - 1 <= Len(text) /\ SubSeq(text, i, i + Len(lit) - 1) = lit
    THEN i + Len(lit)
    ELSE 0

\* \w* from place i: the place behind the longest run of word characters
RECURSIVE SkipWord(_, _)
SkipWord(text, i) ==
    IF CharAt(text, i) \in WordChars THEN SkipWord(text, i + 1) ELSE i

\* \s* from place i: the place of the first character that is no whitespace
RECURSIVE SkipSpace(_, _)
SkipSpace(text, i) ==
    IF CharAt(text, i) \in Whitespace THEN SkipSpace(text, i + 1) ELSE i

\* (\s*,\s*\w+)* from place i: the place behind the last repetition
RECURSIVE ListTail(_, _)
ListTail(text, i) ==
    LET comma == SkipSpace(text, i)
        word == SkipSpace(text, comma + 1)
        end == SkipWord(text, word)
    IN IF CharAt(text, comma) = "," /\ end > word
       THEN ListTail(text, end)
       ELSE i

\* \[(\w+(\s*,\s*\w+)*)\] from place i: the place behind the "]", or 0 when
\* the text does not match there
BracketList(text, i) ==
    LET word == SkipWord(text, i + 1)
        end == ListTail(text, word)
    IN IF i >= 1 /\ CharAt(text, i) = "[" /\ word > i + 1 /\ CharAt(text, end) = "]"
       THEN end + 1
       ELSE 0

\* "/mute <category>" followed by a bracket list, from place i: the place
\* behind the match, or 0
MuteOf(text, i, category) == BracketList(text, Literal(text, i, "/mute " \o category))

\* regexp.MatchString(EnvironmentRegexp, text): the expression matches somewhere
MatchEnvironment(text) == \E i \in 1..Len(text) : MuteOf(text, i, "environment") # 0

\* regexp.MatchString(ProjectRegexp, text)
MatchProject(text) == \E i \in 1..Len(text) : MuteOf(text, i, "project") # 0

\* regexp.MatchString(ProjectAndEnvironmentRegexp, text): the environments,
\* a comma, at most one space, and the projects
MatchProjectAndEnvironment(text) ==
    \E i \in 1..Len(text) :
        LET comma == Literal(text, MuteOf(text, i, "environment"), ",")
            p == IF comma # 0 /\ CharAt(text, comma) = " " THEN comma + 1 ELSE comma
        IN BracketList(text, Literal(text, p, "project")) # 0

\* regexp.FindStringSubmatch of `<category>\[(.*?)\]`: the first place where
\* the category and "[" stand, wherever in a word, with a "]" behind them and
\* no newline between, and the text between the brackets; found is false
\* when there is no match and FindStringSubmatch returns nil
FindValues(text, category) ==
    LET open(i) == Literal(text, i, category \o "[")
        closes(i) == {k \in open(i)..Len(text) : CharAt(text, k) = "]"}
        close(i) == CHOOSE k \in closes(i) : \A j \in closes(i) : k <= j
        matches(i) ==
            /\ open(i) # 0
            /\ closes(i) # {}
            /\ \A j \in open(i)..(close(i) - 1) : CharAt(text, j) # "\n"
        M == {i \in 1..Len(text) : matches(i)}
    IN IF M = {} THEN [found |-> FALSE, group |-> ""]
       ELSE LET i == CHOOSE k \in M : \A j \in M : k <= j
            IN [found |-> TRUE, group |-> SubSeq(text, open(i), close(i) - 1)]

\* strings.Split(strings.Replace(group, " ", "", -1), ",")
ValuesOf(group) == Split(Replace(group, " "), ",")

\* arrayDifference(a, b): the elements of a that are not in b, in the order of a
arrayDifference(a, b) == SelectSeq(a, LAMBDA x : \A i \in 1..Len(b) : b[i] # x)

ErrNoMatch == "No match were found"

\* what parseMuteCommand returns, or that it panicked
Parsed(environments, projects, err) ==
    [environments |-> environments, projects |-> projects, err |-> err, panic |-> FALSE]

\* index out of range: FindStringSubmatch(...)[1] on a nil slice
ParsePanic == [environments |-> <<>>, projects |-> <<>>, err |-> Nil, panic |-> TRUE]

\* a parser that tries the form of the environments before the form of both
parseMuteCommand_EnvironmentFirst(text, environments, projects) ==
    LET env == FindValues(text, "environment")
        p == FindValues(text, "project")
    IN IF MatchEnvironment(text)
       THEN IF ~env.found THEN ParsePanic
            ELSE Parsed(arrayDifference(environments, ValuesOf(env.group)), <<>>, Nil)
       ELSE IF MatchProject(text)
       THEN IF ~p.found THEN ParsePanic
            ELSE Parsed(<<>>, arrayDifference(projects, ValuesOf(p.group)), Nil)
       ELSE Parsed(<<>>, <<>>, ErrNoMatch)

\* parseMuteCommand(text, environments, projects)
parseMuteCommand(text, environments, projects) ==
    LET env == FindValues(text, "environment")
        p == FindValues(text, "project")
    IN IF MatchProjectAndEnvironment(text)
       THEN IF ~env.found \/ ~p.found THEN ParsePanic
            ELSE Parsed(arrayDifference(environments, ValuesOf(env.group)),
                        arrayDifference(projects, ValuesOf(p.group)), Nil)
       ELSE IF MatchEnvironment(text)
       THEN IF ~env.found THEN ParsePanic
            ELSE Parsed(arrayDifference(environments, ValuesOf(env.group)), <<>>, Nil)
       ELSE IF MatchProject(text)
       THEN IF ~p.found THEN ParsePanic
            ELSE Parsed(<<>>, arrayDifference(projects, ValuesOf(p.group)), Nil)
       ELSE Parsed(<<>>, <<>>, ErrNoMatch)

\* ------------------------------------------------------------------ bot
\* commandsCounter before Run
NoCounters == <<>>

\* no message processed yet
NoProc == [handled |-> FALSE]

\* the actors of Run: the relay of the alert events and the loop of the messages
Actors == {"sendWebhook", "messageLoop"}

\* Run, which waits for the actors, and the actors
Tasks == {"Run"} \cup Actors

\* Run was not called: no channel of messages, no actor
RunIdle ==
    /\ messages = <<>>
    /\ done = FALSE
    /\ task = [t \in Tasks |-> [pc |-> "idle"]]
    /\ trace = [t \in Actors |-> <<>>]

\* the bot before Run: nothing taken in, nothing done
BotIdle ==
    /\ webhooks = <<>>
    /\ relay = NoRelay
    /\ counters = NoCounters
    /\ proc = NoProc
    /\ fn = NoCall
    /\ nin = 0
    /\ RunIdle

\* ------------------------------------------------- the actors of Run
\* where an actor stands: at the select of its loop ("select"), with a unit
\* of work in hand and about to make its next call or inside it ("process",
\* "lookup", "handler" and "reply" for the message loop; "List", "render" and
\* "send" for
\* sendWebhook), or returned; and what it holds: the message and the
\* messages the handler is about to send, or the event w, the chats List
\* returned, the rendered text, and the index (from 1) of the next chat of
\* the range loop
At(pc) == [pc |-> pc]
WithMessage(pc, message, replies) == [pc |-> pc, message |-> message, replies |-> replies]
WithEvent(pc, w, chats, out, i) ==
    [pc |-> pc, w |-> w, chats |-> chats, out |-> out, i |-> i]

\* one entry of the history of an actor: what it did, with which unit of
\* work (the n-th message or event its channel delivered), on what, and the
\* error
Did(op, n, arg, err) == [op |-> op, n |-> n, arg |-> arg, err |-> err]

\* the history with one more entry for the actor t
Log(t, entry) == [trace EXCEPT ![t] = Append(@, entry)]

\* the number of units of work an actor has received from its channel
Received(t) == Cardinality({i \in 1..Len(trace[t]) : trace[t][i].op = "receive"})

\* make(chan telebot.Message, 100)
MessagesBuffer == 100

\* Run waits for its actors; once the context is cancelled, with the number
\* of units of work each channel had delivered by then
Waits(pc, queued) == [pc |-> pc, queued |-> queued]

\* the number of units of work that were put on the channel of an actor
Queued(t) == Received(t) + (IF t = "messageLoop" THEN Len(messages) ELSE Len(webhooks))

\* Run has started its two actors: the channels are empty, every counter is
\* 0, and each actor stands at the select of its loop
BotStarted ==
    /\ webhooks = <<>>
    /\ relay = NoRelay
    /\ counters = [c \in DOMAIN commands |-> 0]
    /\ proc = NoProc
    /\ fn = NoCall
    /\ nin = 0
    /\ messages = <<>>
    /\ done = FALSE
    /\ task = [t \in Tasks |-> IF t = "Run" THEN Waits("running", [a \in Actors |-> 0])
                                ELSE At("select")]
    /\ trace = [t \in Actors |-> <<>>]

\* process was called with the message and has done nothing yet
Called(message, cnt, s) ==
    [handled |-> FALSE, message |-> message, typingErr |-> Nil, before |-> cnt,
     kvBefore |-> s, err |-> Nil, typing |-> <<>>, replies |-> <<>>, handler |-> "",
     arg |-> NoMessage]

\* the answers of the alertmanager that the handler of a text can see
AnswersFor(text) ==
    IF CommandToken(text) \in {"/status", "/alerts", "/silences"}
    THEN AlertmanagerAnswers ELSE {"none"}

\* the message loop at its select: ctx.Done() is closed and
\* case <-ctx.Done(): return nil is chosen
MessageLoopReturn ==
    /\ task["messageLoop"].pc = "select"
    /\ done
    /\ task' = [task EXCEPT !["messageLoop"] = At("returned")]
    /\ UNCHANGED <<webhooks, relay, counters, proc, fn, nin, messages, done, trace>>
    /\ UNCHANGED storeVars

\* the message loop at its select: a message is on the channel and
\* case message := <-messages is chosen; whether ctx.Done() is closed as well
\* plays no part, select chooses among the cases that can proceed
MessageLoopReceive ==
    /\ task["messageLoop"].pc = "select"
    /\ messages # <<>>
    /\ task' = [task EXCEPT !["messageLoop"] = WithMessage("process", Head(messages), <<>>)]
    /\ messages' = Tail(messages)
    /\ proc' = Called(Head(messages), counters, kv)
    /\ trace' = Log("messageLoop", Did("receive", Received("messageLoop") + 1,
                                  done, Nil))
    /\ UNCHANGED <<webhooks, relay, counters, fn, nin, done>>
    /\ UNCHANGED storeVars

\* the message loop that returns the error of process
MessageLoopChecks_ReturnsTheError ==
    /\ task["messageLoop"].pc = "process"
    /\ \E typingErr \in TypingResults(task["messageLoop"].message) :
          \E r \in {processChecks(task["messageLoop"].message, typingErr, kv, counters)} :
             /\ counters' = r.counters
             /\ proc' = [proc EXCEPT !.handled = r.returned, !.typingErr = typingErr,
                                     !.err = r.err, !.typing = r.typing]
             /\ task' = [task EXCEPT !["messageLoop"] =
                            IF r.err # Nil THEN At("returned")
                            ELSE IF r.returned THEN At("select")
                            ELSE WithMessage("lookup", @.message, <<>>)]
             /\ trace' = IF r.returned
                         THEN Log("messageLoop", Did("process", Received("messageLoop"),
                                                "", r.err))
                         ELSE trace
    /\ UNCHANGED <<webhooks, relay, fn, nin, messages, done>>
    /\ UNCHANGED storeVars

\* process(message) up to the return of SendChatAction; when process returns
\* here its error is logged and the loop goes on with its select
MessageLoopChecks ==
    /\ task["messageLoop"].pc = "process"
    /\ \E typingErr \in TypingResults(task["messageLoop"].message) :
          \E r \in {processChecks(task["messageLoop"].message, typingErr, kv, counters)} :
             /\ counters' = r.counters
             /\ proc' = [proc EXCEPT !.handled = r.returned, !.typingErr = typingErr,
                                     !.err = r.err, !.typing = r.typing]
             /\ task' = [task EXCEPT !["messageLoop"] =
                            IF r.returned THEN At("select")
                            ELSE WithMessage("lookup", @.message, <<>>)]
             /\ trace' = IF r.returned
                         THEN Log("messageLoop", Did("process", Received("messageLoop"),
                                                "", r.err))
                         ELSE trace
    /\ UNCHANGED <<webhooks, relay, fn, nin, messages, done>>
    /\ UNCHANGED storeVars

\* process(message) from the return of SendChatAction to its next call that
\* waits: the counter of the token is raised; then process or the handler is
\* about to send its message, the handler is inside its call of the store or
\* of the alertmanager, or the handler has returned without a call
MessageLoopLookup ==
    /\ task["messageLoop"].pc = "lookup"
    /\ \E r \in {processLookup(task["messageLoop"].message, kv, counters)} :
          LET calls == r.handler \in CallingHandlers
              returns == r.returned
          IN /\ counters' = r.counters
             /\ kv' = r.kv
             /\ proc' = [proc EXCEPT !.handled = returns,
                                     !.handler = r.handler, !.arg = r.arg]
             /\ task' = [task EXCEPT !["messageLoop"] =
                            IF returns THEN At("select")
                            ELSE IF calls THEN WithMessage("handler", @.message, <<>>)
                            ELSE WithMessage("reply", @.message, r.replies)]
             /\ trace' = IF returns
                         THEN Log("messageLoop", Did("process", Received("messageLoop"),
                                                r.handler, r.err))
                         ELSE trace
    /\ UNCHANGED <<webhooks, relay, fn, nin, messages, done>>
    /\ UNCHANGED <<last, nops, added, member, universe>>

\* the call of the handler is served: b.chats.List() reads the store as it is
\* at this moment, the alertmanager gives its answer; the handler has its
\* message ready to send, or returns without one
MessageLoopHandler ==
    /\ task["messageLoop"].pc = "handler"
    /\ LET message == task["messageLoop"].message
       IN \E am \in AnswersFor(message.Text) :
             \E replies \in {Handle(commands[CommandToken(message.Text)], message, kv, am)} :
                /\ proc' = [proc EXCEPT !.handled = (replies = <<>>)]
                /\ task' = [task EXCEPT !["messageLoop"] =
                               IF replies = <<>> THEN At("select")
                               ELSE WithMessage("reply", message, replies)]
                /\ trace' = IF replies = <<>>
                            THEN Log("messageLoop", Did("process", Received("messageLoop"),
                                                   proc.handler, Nil))
                            ELSE trace
    /\ UNCHANGED <<webhooks, relay, counters, fn, nin, messages, done>>
    /\ UNCHANGED storeVars

\* b.telegram.SendMessage of the handler, whose result the handler ignores;
\* process returns nil and the loop goes on with its select
MessageLoopReply ==
    /\ task["messageLoop"].pc = "reply"
    /\ proc' = [proc EXCEPT !.handled = TRUE, !.replies = task["messageLoop"].replies]
    /\ task' = [task EXCEPT !["messageLoop"] = At("select")]
    /\ trace' = Log("messageLoop", Did("process", Received("messageLoop"),
                                  proc.handler, Nil))
    /\ UNCHANGED <<webhooks, relay, counters, fn, nin, messages, done>>
    /\ UNCHANGED storeVars

\* sendWebhook at its select: ctx.Done() is closed and
\* case <-ctx.Done(): return nil is chosen
RelayReturn ==
    /\ task["sendWebhook"].pc = "select"
    /\ done
    /\ task' = [task EXCEPT !["sendWebhook"] = At("returned")]
    /\ UNCHANGED <<webhooks, relay, counters, proc, fn, nin, messages, done, trace>>
    /\ UNCHANGED storeVars

\* sendWebhook that takes the next event while it holds one
RelayReceive_WhileBusy ==
    /\ task["sendWebhook"].pc \in {"select", "send"}
    /\ webhooks # <<>>
    /\ task' = [task EXCEPT !["sendWebhook"] = WithEvent("List", Head(webhooks), <<>>, <<>>, 0)]
    /\ webhooks' = Tail(webhooks)
    /\ relay' = RelayOutcome(Head(webhooks), Nil, <<>>, 0, Nil, <<>>)
    /\ trace' = Log("sendWebhook", Did("receive", Received("sendWebhook") + 1,
                                  done, Nil))
    /\ UNCHANGED <<counters, proc, fn, nin, messages, done>>
    /\ UNCHANGED storeVars

\* sendWebhook at its select: an event is on the channel and
\* case w := <-webhooks is chosen
RelayReceive ==
    /\ task["sendWebhook"].pc = "select"
    /\ webhooks # <<>>
    /\ task' = [task EXCEPT !["sendWebhook"] = WithEvent("List", Head(webhooks), <<>>, <<>>, 0)]
    /\ webhooks' = Tail(webhooks)
    /\ relay' = RelayOutcome(Head(webhooks), Nil, <<>>, 0, Nil, <<>>)
    /\ trace' = Log("sendWebhook", Did("receive", Received("sendWebhook") + 1,
                                  done, Nil))
    /\ UNCHANGED <<counters, proc, fn, nin, messages, done>>
    /\ UNCHANGED storeVars

\* chats, err := b.chats.List(): on an error, and with no chat, the loop
\* goes on with its select
RelayList ==
    /\ task["sendWebhook"].pc = "List"
    /\ \E l \in {List(kv)} :
          /\ task' = [task EXCEPT !["sendWebhook"] =
                         IF l.err # Nil \/ Len(l.chats) = 0 THEN At("select")
                         ELSE WithEvent("render", task["sendWebhook"].w, l.chats, <<>>, 0)]
          /\ relay' = [relay EXCEPT !.listErr = l.err, !.chats = l.chats]
          /\ trace' = Log("sendWebhook", Did("List", Received("sendWebhook"),
                                        l.chats, l.err))
    /\ UNCHANGED <<webhooks, counters, proc, fn, nin, messages, done>>
    /\ UNCHANGED storeVars

\* out, err := b.templates.ExecuteHTMLString(...): on an error the loop goes
\* on with its select
RelayRender ==
    /\ task["sendWebhook"].pc = "render"
    /\ LET w == task["sendWebhook"].w
           t == ExecuteHTMLString(w)
       IN /\ task' = [task EXCEPT !["sendWebhook"] =
                         IF t.err # Nil THEN At("select")
                         ELSE WithEvent("send", w, task["sendWebhook"].chats, t.out, 1)]
          /\ relay' = [relay EXCEPT !.renders = @ + 1, !.renderErr = t.err]
          /\ trace' = Log("sendWebhook", Did("render", Received("sendWebhook"),
                                        <<>>, t.err))
    /\ UNCHANGED <<webhooks, counters, proc, fn, nin, messages, done>>
    /\ UNCHANGED storeVars

\* what one turn of the range loop of sendWebhook does: the message sent,
\* with the result of SendMessage, and whether the loop goes on after it
Sending(chat, text, err, more) ==
    /\ relay' = [relay EXCEPT !.sends = Append(@, [chat |-> chat, text |-> text, err |-> err])]
    /\ trace' = Log("sendWebhook", Did("SendMessage", Received("sendWebhook"), chat, err))
    /\ task' = [task EXCEPT !["sendWebhook"] =
                   IF more THEN WithEvent("send", @.w, @.chats, @.out, @.i + 1)
                   ELSE At("select")]

\* sendWebhook sending to the chat that List returns now at the place of the
\* range loop, when there is one
RelaySend_ListsAgain ==
    /\ task["sendWebhook"].pc = "send"
    /\ LET r == task["sendWebhook"]
           now == List(kv).chats
       IN \E err \in {Nil, ErrSend} :
             IF r.i <= Len(now)
             THEN Sending(now[r.i], truncateMessage(r.out), err, r.i < Len(now))
             ELSE /\ task' = [task EXCEPT !["sendWebhook"] = At("select")]
                  /\ UNCHANGED <<relay, trace>>
    /\ UNCHANGED <<webhooks, counters, proc, fn, nin, messages, done>>
    /\ UNCHANGED storeVars

\* sendWebhook sending the first chat the text as rendered
RelaySend_FirstUncut ==
    /\ task["sendWebhook"].pc = "send"
    /\ LET r == task["sendWebhook"]
       IN \E err \in {Nil, ErrSend} :
             Sending(r.chats[r.i], IF r.i = 1 THEN r.out ELSE truncateMessage(r.out),
                     err, r.i < Len(r.chats))
    /\ UNCHANGED <<webhooks, counters, proc, fn, nin, messages, done>>
    /\ UNCHANGED storeVars

\* sendWebhook leaving the range loop at the first SendMessage that fails
RelaySend_StopsAtFailure ==
    /\ task["sendWebhook"].pc = "send"
    /\ LET r == task["sendWebhook"]
       IN \E err \in {Nil, ErrSend} :
             Sending(r.chats[r.i], truncateMessage(r.out), err,
                     r.i < Len(r.chats) /\ err = Nil)
    /\ UNCHANGED <<webhooks, counters, proc, fn, nin, messages, done>>
    /\ UNCHANGED storeVars

\* one turn of for _, chat := range chats: SendMessage(chat,
\* b.truncateMessage(out)), its error logged; after the last chat the loop
\* goes on with its select
RelaySend ==
    /\ task["sendWebhook"].pc = "send"
    /\ LET r == task["sendWebhook"]
       IN \E err \in {Nil, ErrSend} :
             Sending(r.chats[r.i], truncateMessage(r.out), err, r.i < Len(r.chats))
    /\ UNCHANGED <<webhooks, counters, proc, fn, nin, messages, done>>
    /\ UNCHANGED storeVars

\* the steps of the message loop, and those of sendWebhook
MessageLoop ==
    \/ MessageLoopReturn
    \/ MessageLoopReceive
    \/ MessageLoopChecks
    \/ MessageLoopLookup
    \/ MessageLoopHandler
    \/ MessageLoopReply
Relay == RelayReturn \/ RelayReceive \/ RelayList \/ RelayRender \/ RelaySend

\* -------------------------------------------------------------- actions
\* NewChatStore over an empty backend
Init ==
    /\ kv = <<>>
    /\ last = Call("NewChatStore", ZeroChat, <<>>, Nil, <<>>)
    /\ nops = 0
    /\ added = {}
    /\ member = [k \in CategoryKeys |-> <<>>]
    /\ universe = [id \in ChatIDs |-> NoUniverse]
    /\ BotIdle

DoList ==
    /\ nops < MaxOps
    /\ LET r == List(kv)
       IN last' = Call("List", ZeroChat, telegramChatsDirectory, r.err, r.chats)
    /\ nops' = nops + 1
    /\ UNCHANGED <<kv, added, member, universe>>
    /\ UNCHANGED botVars

DoAdd ==
    \E c \in Chats :
        /\ nops < MaxOps
        /\ LET r == Add(kv, c)
           IN /\ kv' = r.kv
              /\ last' = Call("Add", c, ChatKey(c), r.err, <<>>)
        /\ nops' = nops + 1
        /\ added' = added \cup {c.ID}
        /\ UNCHANGED <<member, universe>>
        /\ UNCHANGED botVars

DoRemove ==
    \E c \in Chats, absent \in {Nil, ErrKeyNotFound} :
        /\ nops < MaxOps
        /\ LET r == Remove(kv, c, absent)
           IN /\ kv' = r.kv
              /\ last' = Call("Remove", c, ChatKey(c), r.err, <<>>)
        /\ nops' = nops + 1
        /\ added' = added \ {c.ID}
        /\ universe' = [universe EXCEPT ![c.ID] = NoUniverse]
        /\ UNCHANGED member
        /\ UNCHANGED botVars

DoAddUserToProject ==
    \E c \in Chats, p \in IndexProjects :
        /\ nops < MaxOps
        /\ LET r == AddUserToProject(kv, c, p)
           IN /\ kv' = r.kv
              /\ last' = Call("AddUserToProject", c, ProjectKey(p), r.err, <<>>)
        /\ nops' = nops + 1
        /\ member' = MemberAdd(member, ProjectKey(p), c.ID)
        /\ UNCHANGED <<added, universe>>
        /\ UNCHANGED botVars

DoAddUserToEnvironment ==
    \E c \in Chats, e \in IndexEnvironments :
        /\ nops < MaxOps
        /\ LET r == AddUserToEnvironment(kv, c, e)
           IN /\ kv' = r.kv
              /\ last' = Call("AddUserToEnvironment", c, EnvironmentKey(e), r.err, <<>>)
        /\ nops' = nops + 1
        /\ member' = MemberAdd(member, EnvironmentKey(e), c.ID)
        /\ UNCHANGED <<added, universe>>
        /\ UNCHANGED botVars

DoRemoveUserFromProject ==
    \E c \in Chats, p \in IndexProjects :
        /\ nops < MaxOps
        /\ LET r == RemoveUserFromProject(kv, c, p)
           IN /\ kv' = r.kv
              /\ last' = Call("RemoveUserFromProject", c, ProjectKey(p), r.err, <<>>)
        /\ nops' = nops + 1
        /\ member' = MemberRemove(member, ProjectKey(p), c.ID)
        /\ UNCHANGED <<added, universe>>
        /\ UNCHANGED botVars

DoRemoveUserFromEnvironment ==
    \E c \in Chats, e \in IndexEnvironments :
        /\ nops < MaxOps
        /\ LET r == RemoveUserFromEnvironment(kv, c, e)
           IN /\ kv' = r.kv
              /\ last' = Call("RemoveUserFromEnvironment", c, EnvironmentKey(e), r.err, <<>>)
        /\ nops' = nops + 1
        /\ member' = MemberRemove(member, EnvironmentKey(e), c.ID)
        /\ UNCHANGED <<added, universe>>
        /\ UNCHANGED botVars

DoGetUsersForProject ==
    \E p \in IndexProjects :
        /\ nops < MaxOps
        /\ LET r == GetUsersForProject(kv, p)
           IN last' = Call("GetUsersForProject", ZeroChat, ProjectKey(p), r.err, r.chats)
        /\ nops' = nops + 1
        /\ UNCHANGED <<kv, added, member, universe>>
        /\ UNCHANGED botVars

DoGetUsersForEnvironment ==
    \E e \in IndexEnvironments :
        /\ nops < MaxOps
        /\ LET r == GetUsersForEnvironment(kv, e)
           IN last' = Call("GetUsersForEnvironment", ZeroChat, EnvironmentKey(e), r.err, r.chats)
        /\ nops' = nops + 1
        /\ UNCHANGED <<kv, added, member, universe>>
        /\ UNCHANGED botVars

\* the universes of a record stay known while every call passes them again
SameUniverse(u, id, field, all) ==
    [u EXCEPT ![id].same = @ /\ u[id][field] = all]

DoAddChat ==
    \E c \in Chats, E \in EnvironmentUniverses, P \in ProjectUniverses :
        /\ nops < MaxOps
        /\ LET r == AddChat(kv, c, E, P)
           IN /\ kv' = r.kv
              /\ last' = RecordCall("AddChat", c, {}, E, P, r.err, <<>>, kv)
        /\ nops' = nops + 1
        /\ added' = added \cup {c.ID}
        /\ universe' = [universe EXCEPT ![c.ID] = [env |-> E, proj |-> P, same |-> TRUE]]
        /\ UNCHANGED member
        /\ UNCHANGED botVars

DoGetChatInfo ==
    \E c \in ChatsByID :
        /\ nops < MaxOps
        /\ LET r == GetChatInfo(kv, c)
           IN last' = RecordCall("GetChatInfo", c, {}, {}, {}, r.err, r.info, kv)
        /\ nops' = nops + 1
        /\ UNCHANGED <<kv, added, member, universe>>
        /\ UNCHANGED botVars

DoMuteEnvironments ==
    \E c \in ChatsByID, toMute \in SUBSET EnvironmentNames, E \in EnvironmentUniverses :
        /\ nops < MaxOps
        /\ LET r == MuteEnvironments(kv, c, toMute, E)
           IN /\ kv' = r.kv
              /\ last' = RecordCall("MuteEnvironments", c, toMute, E, {}, r.err, <<>>, kv)
        /\ nops' = nops + 1
        /\ universe' = SameUniverse(universe, c.ID, "env", E)
        /\ UNCHANGED <<added, member>>
        /\ UNCHANGED botVars

DoMuteProjects ==
    \E c \in ChatsByID, toMute \in SUBSET ProjectNames, P \in ProjectUniverses :
        /\ nops < MaxOps
        /\ LET r == MuteProjects(kv, c, toMute, P)
           IN /\ kv' = r.kv
              /\ last' = RecordCall("MuteProjects", c, toMute, {}, P, r.err, <<>>, kv)
        /\ nops' = nops + 1
        /\ universe' = SameUniverse(universe, c.ID, "proj", P)
        /\ UNCHANGED <<added, member>>
        /\ UNCHANGED botVars

DoUnmuteEnvironment ==
    \E c \in ChatsByID, name \in EnvironmentNames, E \in EnvironmentUniverses :
        /\ nops < MaxOps
        /\ LET r == UnmuteEnvironment(kv, c, name, E)
           IN /\ kv' = r.kv
              /\ last' = RecordCall("UnmuteEnvironment", c, {name}, E, {}, r.err, <<>>, kv)
        /\ nops' = nops + 1
        /\ universe' = SameUniverse(universe, c.ID, "env", E)
        /\ UNCHANGED <<added, member>>
        /\ UNCHANGED botVars

DoUnmuteProject ==
    \E c \in ChatsByID, name \in ProjectNames, P \in ProjectUniverses :
        /\ nops < MaxOps
        /\ LET r == UnmuteProject(kv, c, name, P)
           IN /\ kv' = r.kv
              /\ last' = RecordCall("UnmuteProject", c, {name}, {}, P, r.err, <<>>, kv)
        /\ nops' = nops + 1
        /\ universe' = SameUniverse(universe, c.ID, "proj", P)
        /\ UNCHANGED <<added, member>>
        /\ UNCHANGED botVars

Next ==
    \/ DoList
    \/ DoAdd
    \/ DoRemove
    \/ DoAddUserToProject
    \/ DoAddUserToEnvironment
    \/ DoRemoveUserFromProject
    \/ DoRemoveUserFromEnvironment
    \/ DoGetUsersForProject
    \/ DoGetUsersForEnvironment

Spec == Init /\ [][Next]_vars

\* the category lists a behaviour of the index starts with: MaxMembers chats
\* in every order of insertion
IndexLists ==
    {l \in [1..MaxMembers -> 1..MaxMembers] :
        \A i, j \in 1..MaxMembers : l[i] = l[j] => i = j}

\* the store after AddUserToProject for the chats of ids, in that order
RECURSIVE WithMembers(_, _, _)
WithMembers(s, ids, projectName) ==
    IF ids = <<>> THEN s
    ELSE WithMembers(AddUserToProject(s, PrivateChat(Head(ids), "test"), projectName).kv,
                     Tail(ids), projectName)

\* a store whose first project has had MaxMembers chats added, in some order
InitIndex ==
    \E ids \in IndexLists, p \in IndexProjects :
        /\ kv = WithMembers(<<>>, ids, p)
        /\ last = Call("NewChatStore", ZeroChat, <<>>, Nil, <<>>)
        /\ nops = 0
        /\ added = {}
        /\ member = [k \in CategoryKeys |-> IF k = ProjectKey(p) THEN ids ELSE <<>>]
        /\ universe = [id \in ChatIDs |-> NoUniverse]
        /\ BotIdle

\* the operations of ChatStore on the category lists
NextIndex ==
    \/ DoAddUserToProject
    \/ DoAddUserToEnvironment
    \/ DoRemoveUserFromProject
    \/ DoRemoveUserFromEnvironment
    \/ DoGetUsersForProject
    \/ DoGetUsersForEnvironment

SpecIndex == InitIndex /\ [][NextIndex]_vars

\* the operations of BotChatStore on subscription records
NextRecords ==
    \/ DoAddChat
    \/ DoGetChatInfo
    \/ DoRemove
    \/ DoMuteEnvironments
    \/ DoMuteProjects
    \/ DoUnmuteEnvironment
    \/ DoUnmuteProject

SpecRecords == Init /\ [][NextRecords]_vars

\* ---------------------------------------------- a backend with contents
\* NewChatStore takes the backend it is given: a database file written by
\* earlier runs or by other programs. The values it may hold under one key:
\* the entries of a category list are encoded chats or bytes that do not decode
PersistedEntries == {MarshalChat(c) : c \in ChatsByID} \cup {InvalidJSON}

PersistedLists ==
    {MarshalBytes(<<a>>) : a \in PersistedEntries}
        \cup {MarshalBytes(<<a, b>>) : a \in PersistedEntries, b \in PersistedEntries}

PersistedStores ==
    {[k \in {key} |-> v] : key \in CategoryKeys, v \in PersistedLists \cup {InvalidJSON}}
        \cup {[k \in {ChatKey(c)} |-> MarshalChat(c)] : c \in ChatsByID}
        \cup {[k \in {ChatKey(c)} |-> InvalidJSON] : c \in ChatsByID}

\* NewChatStore over a backend that already holds a key
InitPersisted ==
    /\ kv \in PersistedStores
    /\ last = Call("NewChatStore", ZeroChat, <<>>, Nil, <<>>)
    /\ nops = 0
    /\ added = {}
    /\ member = [k \in CategoryKeys |-> <<>>]
    /\ universe = [id \in ChatIDs |-> NoUniverse]
    /\ BotIdle

NextPersisted ==
    \/ DoList
    \/ DoAddUserToProject
    \/ DoAddUserToEnvironment
    \/ DoRemoveUserFromProject
    \/ DoRemoveUserFromEnvironment
    \/ DoGetUsersForProject
    \/ DoGetUsersForEnvironment

SpecPersisted == InitPersisted /\ [][NextPersisted]_vars

\* ------------------------------------------------------ the alert relay
\* a bot over a store with chats
InitRelay ==
    /\ kv \in RelayStores
    /\ last = Call("NewChatStore", ZeroChat, <<>>, Nil, <<>>)
    /\ nops = 0
    /\ added = {}
    /\ member = [k \in CategoryKeys |-> <<>>]
    /\ universe = [id \in ChatIDs |-> NoUniverse]
    /\ BotStarted

\* the webhook handler puts an alert event on the channel
Webhook ==
    \E w \in Events :
        /\ nin < MaxEvents
        /\ webhooks' = Append(webhooks, w)
        /\ nin' = nin + 1
        /\ UNCHANGED <<relay, counters, proc, fn>>
        /\ UNCHANGED runVars
        /\ UNCHANGED storeVars

NextRelay ==
    \/ Webhook
    \/ RelayReceive
    \/ RelayList
    \/ RelayRender
    \/ RelaySend

SpecRelay == InitRelay /\ [][NextRelay]_vars

\* ------------------------------------------------- truncateMessage alone
\* number of blank lines in a text given to truncateMessage
MaxSeparators == 2

\* lengths on both sides of the limit
TextLengths ==
    {0, 5, SnipWindow, MessageLimit - 1, MessageLimit, MessageLimit + 1, MessageLimit + 105}

\* places of a blank line: at the start, inside the window, across its end,
\* and behind it
SeparatorPlaces ==
    {0, 1, 2, 50, SnipWindow - 3, SnipWindow - 2, SnipWindow - 1, SnipWindow, MessageLimit}

Texts ==
    {TextOf(n, S) : n \in TextLengths,
                    S \in {T \in SUBSET SeparatorPlaces : Cardinality(T) <= MaxSeparators}}

\* a text is about to be given to truncateMessage
InitTruncate ==
    /\ kv = <<>>
    /\ last = Call("NewChatStore", ZeroChat, <<>>, Nil, <<>>)
    /\ nops = 0
    /\ added = {}
    /\ member = [k \in CategoryKeys |-> <<>>]
    /\ universe = [id \in ChatIDs |-> NoUniverse]
    /\ webhooks = <<>>
    /\ relay = NoRelay
    /\ counters = NoCounters
    /\ proc = NoProc
    /\ \E str \in Texts : fn = [name |-> "", arg |-> str, res |-> <<>>]
    /\ nin = 0
    /\ RunIdle

TruncateMessage ==
    /\ fn.name = ""
    /\ fn' = [name |-> "truncateMessage", arg |-> fn.arg, res |-> truncateMessage(fn.arg)]
    /\ UNCHANGED <<webhooks, relay, counters, proc, nin>>
    /\ UNCHANGED runVars
    /\ UNCHANGED storeVars

NextTruncate == TruncateMessage

SpecTruncate == InitTruncate /\ [][NextTruncate]_vars

\* -------------------------------------------------------- the dispatcher
\* number of messages one behaviour takes in
MaxMessages == 1

\* the senders: the two admins and one that is none
SenderIDs == 1..Admin

\* a telebot.User: the sender of a message
User(id) == [ID |-> id, FirstName |-> "Ann"]

\* the chats the messages come from
MessageChats == {PrivateChat(id, "test") : id \in {1, 2}}

\* the texts of the messages: the eleven commands, commands with arguments,
\* with the mention of the bot at the end, in the middle, inside a word and in
\* front, with the mention of another bot, and texts that are no command
MessageTexts ==
    {"/start", "/stop", "/help", "/chats",
     "/status", "/alerts", "/silences", "/mute",
     "/mute_del", "/environments", "/projects",
     "/start foo",
     "/help@bot",
     "/mute environment[env1]",
     "/mute@bot environment[env1]",
     "/mute foo",
     "@bot/help",
     "/help@other",
     " /help",
     "/mute@bot_del",
     "/he@botlp",
     "hello",
     ""}

Messages ==
    [Service : BOOLEAN, Sender : {User(id) : id \in SenderIDs}, Chat : MessageChats,
     Text : MessageTexts]

\* the stores the dispatcher runs on: empty, with one group chat, with the
\* chats of the messages, and with a category list below the directory of
\* the chats
DispatchStores ==
    {StoreOf({}), StoreOf({GroupChat(2, "ops")}), StoreOf(MessageChats),
     AddUserToProject(StoreOf(MessageChats), CHOOSE c \in MessageChats : TRUE, "pr1").kv}

\* Run: the counter of every command starts at 0
InitDispatch ==
    /\ kv \in DispatchStores
    /\ last = Call("NewChatStore", ZeroChat, <<>>, Nil, <<>>)
    /\ nops = 0
    /\ added = {}
    /\ member = [k \in CategoryKeys |-> <<>>]
    /\ universe = [id \in ChatIDs |-> NoUniverse]
    /\ BotStarted

\* the poller of telegram.Listen puts a message on the channel
Deliver ==
    \E message \in Messages :
        /\ nin < MaxMessages
        /\ Len(messages) < MessagesBuffer
        /\ messages' = Append(messages, message)
        /\ nin' = nin + 1
        /\ UNCHANGED <<webhooks, relay, counters, proc, fn, done, task, trace>>
        /\ UNCHANGED storeVars

NextDispatch ==
    \/ Deliver
    \/ MessageLoopReceive
    \/ MessageLoopChecks
    \/ MessageLoopLookup
    \/ MessageLoopHandler
    \/ MessageLoopReply

SpecDispatch == InitDispatch /\ [][NextDispatch]_vars

\* ------------------------------------------------------ the admins alone
\* largest identifier of a user, and the number of WithExtraAdmins options
\* and of identifiers in one option
MaxAdminID == 3
MaxOptions == 2

AdminIDs == 0..MaxAdminID

\* the identifiers of one option: none, one or several, in any order
RECURSIVE IDLists(_)
IDLists(n) ==
    IF n = 0 THEN {<<>>}
    ELSE IDLists(n - 1) \cup {Append(l, id) : l \in {x \in IDLists(n - 1) : Len(x) = n - 1},
                                               id \in AdminIDs}

\* a bot under construction: the admin given to NewBot, the identifiers given
\* to the options so far, b.admins, and the last identifier asked for
Configured(name, admin, extra, options, admins, id, ok) ==
    [name |-> name,
     arg |-> [admin |-> admin, extra |-> extra, options |-> options, id |-> id],
     res |-> [admins |-> admins, ok |-> ok]]

\* NewBot(chats, token, admin) before its options
InitAdmins ==
    /\ kv = <<>>
    /\ last = Call("NewChatStore", ZeroChat, <<>>, Nil, <<>>)
    /\ nops = 0
    /\ added = {}
    /\ member = [k \in CategoryKeys |-> <<>>]
    /\ universe = [id \in ChatIDs |-> NoUniverse]
    /\ webhooks = <<>>
    /\ relay = NoRelay
    /\ counters = NoCounters
    /\ proc = NoProc
    /\ \E admin \in AdminIDs :
          fn = Configured("NewBot", admin, {}, 0, <<admin>>, 0, FALSE)
    /\ nin = 0
    /\ RunIdle

\* NewBot applies the next option, a WithExtraAdmins(ids...)
ApplyWithExtraAdmins ==
    \E ids \in IDLists(MaxOptions) :
        /\ fn.name \in {"NewBot", "WithExtraAdmins"}
        /\ fn.arg.options < MaxOptions
        /\ fn' = Configured("WithExtraAdmins", fn.arg.admin,
                            fn.arg.extra \cup {ids[i] : i \in 1..Len(ids)},
                            fn.arg.options + 1,
                            WithExtraAdmins(fn.res.admins, ids), 0, FALSE)
        /\ UNCHANGED <<webhooks, relay, counters, proc, nin>>
        /\ UNCHANGED runVars
        /\ UNCHANGED storeVars

\* the bot, returned by NewBot, is asked for an identifier
IsAdminID ==
    \E id \in AdminIDs \cup {MaxAdminID + 1} :
        /\ fn' = Configured("isAdminID", fn.arg.admin, fn.arg.extra, fn.arg.options,
                            fn.res.admins, id, SearchAdmins(fn.res.admins, id))
        /\ UNCHANGED <<webhooks, relay, counters, proc, nin>>
        /\ UNCHANGED runVars
        /\ UNCHANGED storeVars

NextAdmins ==
    \/ ApplyWithExtraAdmins
    \/ IsAdminID

SpecAdmins == InitAdmins /\ [][NextAdmins]_vars

\* ------------------------------------------------ parseMuteCommand alone
\* the texts given to the parser: the three forms with one and with several
\* names, with spaces, a tab, a newline, a carriage return or a form feed
\* around the commas, with names that are in no universe, with text around
\* the command, with a category at the end of a longer word in front of the
\* command, and texts of no form
MuteTexts ==
    {"/mute environment[env1]",
     "/mute environment[env1,env3]",
     "/mute environment[env2 , env1]",
     "/mute environment[env1,\tenv2]",
     "/mute environment[env1,\nenv2]",
     "/mute environment[env9]",
     "/mute environment[env1,env1]",
     "/mute environment[env1,env2,env3,other]",
     "/mute environment[project]",
     "/mute project[pr1]",
     "/mute project[pr2,pr1]",
     "/mute project[pr1, pr9]",
     "/mute project[env1]",
     "/mute environment[env1],project[pr1]",
     "/mute environment[env1], project[pr1]",
     "/mute environment[env1,env2], project[pr2,pr1]",
     "/mute environment[env1],  project[pr1]",
     "/mute environment[env1] project[pr1]",
     "/mute project[pr1],environment[env1]",
     "/mute project[pr1] /mute environment[env2]",
     "/mute environment[env1],project[pr1,\npr2]",
     "/mute environment[env1] please",
     "please /mute environment[env1]",
     "/mute environment[env1 ]",
     "/mute environment[]",
     "/mute environment[env1,]",
     "/mute  environment[env1]",
     "/mute@bot environment[env1]",
     "/mute environment env1",
     "/mute environment[env1,\renv2]",
     "/mute environment[env1\f,env2]",
     "/mute environment[-]",
     "xenvironment[env3] /mute environment[env1]",
     "myproject[pr2] /mute project[pr1]",
     "/mute foo",
     "/mute",
     ""}

\* the universes given to the parser: those of the bot, and shorter ones
ParserEnvironments == {BotEnvironments, <<"env1", "env2", "env3">>, <<"env3", "env1">>}
ParserProjects == {BotProjects, <<"pr1", "pr2">>, <<"pr1">>}

\* a text and the universes are about to be given to parseMuteCommand
InitParse ==
    /\ kv = <<>>
    /\ last = Call("NewChatStore", ZeroChat, <<>>, Nil, <<>>)
    /\ nops = 0
    /\ added = {}
    /\ member = [k \in CategoryKeys |-> <<>>]
    /\ universe = [id \in ChatIDs |-> NoUniverse]
    /\ webhooks = <<>>
    /\ relay = NoRelay
    /\ counters = NoCounters
    /\ proc = NoProc
    /\ \E text \in MuteTexts, environments \in ParserEnvironments, projects \in ParserProjects :
          fn = [name |-> "",
                arg |-> [text |-> text, environments |-> environments, projects |-> projects],
                res |-> <<>>]
    /\ nin = 0
    /\ RunIdle

ParseMuteCommand ==
    /\ fn.name = ""
    /\ fn' = [name |-> "parseMuteCommand", arg |-> fn.arg,
              res |-> parseMuteCommand(fn.arg.text, fn.arg.environments, fn.arg.projects)]
    /\ UNCHANGED <<webhooks, relay, counters, proc, nin>>
    /\ UNCHANGED runVars
    /\ UNCHANGED storeVars

NextParse == ParseMuteCommand

\* ------------------------------------------------------------------ Run
\* number of messages and alert events one run takes in
MaxQueued == 2
\* number of changes other holders of the store make during one run
MaxChanges == 1

\* the messages of a run: /start of a sender who is no admin, and /chats of
\* the admin
RunMessages ==
    {[Service |-> FALSE, Sender |-> User(2), Chat |-> c, Text |-> "/start"] :
        c \in {x \in MessageChats : x.ID = 1}}
      \cup {[Service |-> FALSE, Sender |-> User(Admin), Chat |-> c, Text |-> "/chats"] :
               c \in {x \in MessageChats : x.ID = 2}}

\* the alert events of a run: one that renders and one that does not
RunEvents == {"one", "broken"}

\* Run has made the channel of the messages and started the two actors
InitRun ==
    /\ kv \in {StoreOf({}), StoreOf(MessageChats)}
    /\ last = Call("NewChatStore", ZeroChat, <<>>, Nil, <<>>)
    /\ nops = 0
    /\ added = {}
    /\ member = [k \in CategoryKeys |-> <<>>]
    /\ universe = [id \in ChatIDs |-> NoUniverse]
    /\ BotStarted

\* the poller of telegram.Listen puts a message on the channel
Listen ==
    \E message \in RunMessages :
        /\ nin < MaxQueued
        /\ Len(messages) < MessagesBuffer
        /\ messages' = Append(messages, message)
        /\ nin' = nin + 1
        /\ UNCHANGED <<webhooks, relay, counters, proc, fn, done, task, trace>>
        /\ UNCHANGED storeVars

\* the webhook handler puts an alert event on the channel
Notify ==
    \E w \in RunEvents :
        /\ nin < MaxQueued
        /\ webhooks' = Append(webhooks, w)
        /\ nin' = nin + 1
        /\ UNCHANGED <<relay, counters, proc, fn, messages, done, task, trace>>
        /\ UNCHANGED storeVars

\* the context of Run is cancelled
Cancel ==
    /\ ~done
    /\ done' = TRUE
    /\ task' = [task EXCEPT !["Run"] = Waits(@.pc, [t \in Actors |-> Queued(t)])]
    /\ UNCHANGED <<webhooks, relay, counters, proc, fn, nin, messages, trace>>
    /\ UNCHANGED storeVars

\* another holder of the store adds a chat with ChatStore.Add or removes one
\* with ChatStore.Remove
StoreChanges ==
    \E c \in MessageChats : \E s \in {Add(kv, c).kv, Remove(kv, c, Nil).kv} :
        /\ nops < MaxChanges
        /\ s # kv
        /\ kv' = s
        /\ nops' = nops + 1
        /\ UNCHANGED <<last, added, member, universe>>
        /\ UNCHANGED botVars

\* gr.Run() returns: both actors have returned
RunReturns ==
    /\ task["Run"].pc = "running"
    /\ \A t \in Actors : task[t].pc = "returned"
    /\ task' = [task EXCEPT !["Run"] = Waits("returned", @.queued)]
    /\ UNCHANGED <<webhooks, relay, counters, proc, fn, nin, messages, done, trace>>
    /\ UNCHANGED storeVars

\* Run while its context is not cancelled and nobody else holds the store
NextServe ==
    \/ Listen
    \/ Notify
    \/ MessageLoopReceive
    \/ MessageLoopChecks
    \/ MessageLoopLookup
    \/ MessageLoopHandler
    \/ MessageLoopReply
    \/ RelayReceive
    \/ RelayList
    \/ RelayRender
    \/ RelaySend

NextRun ==
    \/ Listen
    \/ Notify
    \/ Cancel
    \/ StoreChanges
    \/ MessageLoopReturn
    \/ MessageLoopReceive
    \/ MessageLoopChecks
    \/ MessageLoopLookup
    \/ MessageLoopHandler
    \/ MessageLoopReply
    \/ RelayReturn
    \/ RelayReceive
    \/ RelayList
    \/ RelayRender
    \/ RelaySend
    \/ RunReturns

SpecRun == InitRun /\ [][NextRun]_vars

\* Run while its context is not cancelled and nobody else holds the store.
\* The scheduler of Go runs every
\* goroutine that can run, and no call of the store, the renderer or the
\* messenger blocks: an actor that can take a step takes one
SpecServe == InitRun /\ [][NextServe]_vars /\ WF_vars(MessageLoop) /\ WF_vars(Relay)

SpecParse == InitParse /\ [][NextParse]_vars

TypeOK ==
    /\ nops \in 0..MaxOps
    /\ added \subseteq ChatIDs

\* --------------------------------------- properties of subscription records
\* the keys whose stored record belongs to an identifier
RecordKeys(s, id) ==
    {k \in DOMAIN s : s[k].kind = "object" /\ s[k].obj.Chat.ID = id}

HasRecord(s, id) == RecordKeys(s, id) # {}

\* the record of an identifier that has one
RecordOf(s, id) == s[CHOOSE k \in RecordKeys(s, id) : TRUE].obj

MuteOps == {"MuteEnvironments", "MuteProjects", "UnmuteEnvironment", "UnmuteProject"}

\* C1 (I1): a record whose mute and unmute calls all passed the universes E, P
\* it was created with splits E into alerting and muted environments, and P
\* into alerting and muted projects; no other name is in any of the four sets.
C1_I1 ==
    \A id \in ChatIDs :
        (HasRecord(kv, id) /\ universe[id].same) =>
            LET r == RecordOf(kv, id)
            IN /\ r.AlertEnvironments \cup r.MutedEnvironments = universe[id].env
               /\ r.AlertEnvironments \cap r.MutedEnvironments = {}
               /\ r.AlertProjects \cup r.MutedProjects = universe[id].proj
               /\ r.AlertProjects \cap r.MutedProjects = {}

\* an environment was unmuted while another one stays muted, after calls that
\* all passed the universe of the record
C1_Witness ==
    /\ last.op = "UnmuteEnvironment"
    /\ last.err = Nil
    /\ last.pre # kv
    /\ HasRecord(kv, last.chat.ID)
    /\ universe[last.chat.ID].same
    /\ RecordOf(kv, last.chat.ID).MutedEnvironments # {}

\* C2: MuteEnvironments(c, toMute, E) on the record of c, E being its universe,
\* gives muted = old muted + (toMute * E) and alerting = old alerting - toMute,
\* and changes nothing else of the record; MuteProjects does the same on the
\* project sets and keeps the environment sets.
C2_MuteMovesNames ==
    /\ (/\ last.op = "MuteEnvironments"
        /\ HasRecord(last.pre, last.chat.ID)
        /\ universe[last.chat.ID].same) =>
            LET old == RecordOf(last.pre, last.chat.ID)
            IN /\ last.err = Nil
               /\ HasRecord(kv, last.chat.ID)
               /\ RecordOf(kv, last.chat.ID) =
                    [old EXCEPT
                       !.MutedEnvironments = @ \cup (last.names \cap last.envs),
                       !.AlertEnvironments = @ \ last.names]
    /\ (/\ last.op = "MuteProjects"
        /\ HasRecord(last.pre, last.chat.ID)
        /\ universe[last.chat.ID].same) =>
            LET old == RecordOf(last.pre, last.chat.ID)
            IN /\ last.err = Nil
               /\ HasRecord(kv, last.chat.ID)
               /\ RecordOf(kv, last.chat.ID) =
                    [old EXCEPT
                       !.MutedProjects = @ \cup (last.names \cap last.projs),
                       !.AlertProjects = @ \ last.names]

\* env1 was muted, then env1 and env2 together, on a universe of three: one
\* environment alerts and two are muted; the name outside a universe of two
\* is the other case of the claim and is reached with env3
C2_Witness ==
    /\ last.op = "MuteEnvironments"
    /\ last.names = {"env1", "env2"}
    /\ HasRecord(last.pre, last.chat.ID)
    /\ universe[last.chat.ID].same
    /\ universe[last.chat.ID].env = {"env1", "env2", "env3"}
    /\ RecordOf(last.pre, last.chat.ID).MutedEnvironments = {"env1"}
    /\ Cardinality(RecordOf(kv, last.chat.ID).AlertEnvironments) = 1
    /\ Cardinality(RecordOf(kv, last.chat.ID).MutedEnvironments) = 2

\* C3: UnmuteEnvironment(c, name, E) right after MuteEnvironments(c, {name}, E),
\* for a name of E that was alerting, gives back the store as it was before the
\* mute; UnmuteEnvironment with a name outside E changes nothing.
C3_UnmuteUndoesMute ==
    [][last'.op = "UnmuteEnvironment" =>
        /\ (/\ last.op = "MuteEnvironments"
            /\ last.chat.ID = last'.chat.ID
            /\ last.names = last'.names
            /\ last.envs = last'.envs
            /\ last'.names \subseteq last'.envs
            /\ HasRecord(last.pre, last.chat.ID)
            /\ last'.names \subseteq RecordOf(last.pre, last.chat.ID).AlertEnvironments)
           => (kv' = last.pre /\ last'.err = Nil)
        /\ (last'.names \cap last'.envs = {}) => kv' = kv]_vars

\* one alerting environment was muted and unmuted again: nothing is muted
C3_Witness ==
    /\ last.op = "UnmuteEnvironment"
    /\ last.err = Nil
    /\ last.names \subseteq last.envs
    /\ last.pre # kv
    /\ nops = 3
    /\ HasRecord(kv, last.chat.ID)
    /\ RecordOf(kv, last.chat.ID).MutedEnvironments = {}
    /\ RecordOf(kv, last.chat.ID).AlertEnvironments = last.envs

\* C4: after AddChat(c, E, P) the record of c alerts on all of E and P and
\* mutes nothing, whatever was stored for c before; the store holds one record
\* with the identifier of c, and the records of the other chats are untouched.
C4_AddChatReplaces ==
    last.op = "AddChat" =>
        /\ last.err = Nil
        /\ Cardinality(RecordKeys(kv, last.chat.ID)) = 1
        /\ RecordOf(kv, last.chat.ID) = ChatInfo(last.chat, last.envs, {}, last.projs, {})
        /\ \A id \in ChatIDs \ {last.chat.ID} :
              /\ RecordKeys(kv, id) = RecordKeys(last.pre, id)
              /\ \A k \in RecordKeys(kv, id) : kv[k] = last.pre[k]

\* the chat had a record with a muted environment, another universe and
\* another username when it was added again
C4_Witness ==
    /\ last.op = "AddChat"
    /\ HasRecord(last.pre, last.chat.ID)
    /\ LET old == RecordOf(last.pre, last.chat.ID)
       IN /\ old.MutedEnvironments # {}
          /\ old.AlertEnvironments \cup old.MutedEnvironments # last.envs
          /\ old.Chat.Username # last.chat.Username

\* C5: on a chat that has no record, GetChatInfo, MuteEnvironments,
\* MuteProjects, UnmuteEnvironment and UnmuteProject return NotFound and leave
\* the store as it was: no record appears for the chat.
C5_NotFoundChangesNothing ==
    (/\ last.op \in MuteOps \cup {"GetChatInfo"}
     /\ ~HasRecord(last.pre, last.chat.ID)) =>
        /\ last.err = ErrNotFound
        /\ kv = last.pre
        /\ ~HasRecord(kv, last.chat.ID)

\* a mute failed on a chat without a record while another chat has one
C5_Witness ==
    /\ last.op = "MuteEnvironments"
    /\ last.names # {}
    /\ last.names \subseteq last.envs
    /\ last.err = ErrNotFound
    /\ ~HasRecord(kv, last.chat.ID)
    /\ kv # <<>>

\* ------------------------------------------------- properties of ChatStore
IDsOf(chats) == [i \in 1..Len(chats) |-> chats[i].ID]

IsDuplicateFree(seq) ==
    \A i, j \in 1..Len(seq) : seq[i] = seq[j] => i = j

\* the chats stored under a category key
StoredList(s, key) == GetChatsForKey(s, key).chats

MemberAddOps == {"AddUserToProject", "AddUserToEnvironment"}
MemberRemoveOps == {"RemoveUserFromProject", "RemoveUserFromEnvironment"}
MemberGetOps == {"GetUsersForProject", "GetUsersForEnvironment"}

\* C6: Remove(c) takes the key of c out of the store and touches no other key:
\* the call returns no error, also when c has no record; List has no entry
\* with c's identifier afterwards, every other key keeps its value, and when
\* c had no record the store is unchanged.
C6_RemoveDeletesOnlyTheRecord ==
    [][last'.op = "Remove" =>
        LET k == ChatKey(last'.chat)
        IN /\ last'.err = Nil
           /\ k \notin DOMAIN kv'
           /\ DOMAIN kv' = DOMAIN kv \ {k}
           /\ \A j \in DOMAIN kv' : kv'[j] = kv[j]
           /\ \A i \in 1..Len(List(kv').chats) : List(kv').chats[i].ID # last'.chat.ID
           /\ (k \notin DOMAIN kv => kv' = kv)]_vars

\* C7: List succeeds and returns exactly one entry per chat that was added and
\* not removed since, and nothing else, whatever store operations came before.
C7_ListReturnsTheCurrentRecords ==
    last.op = "List" =>
        /\ last.err = Nil
        /\ Len(last.out) = Cardinality(added)
        /\ {last.out[i].ID : i \in 1..Len(last.out)} = added

\* no category list holds an identifier twice
I2 ==
    \A k \in CategoryKeys : IsDuplicateFree(IDsOf(StoredList(kv, k)))

\* C8 (I2): no category list holds an identifier twice, and adding a chat whose
\* identifier is already in the list, under whatever username, leaves the
\* store unchanged.
C8_MembershipListsAreDeduplicated ==
    /\ []I2
    /\ [][(/\ last'.op \in MemberAddOps
           /\ chatContains(StoredList(kv, last'.key), last'.chat))
          => (kv' = kv /\ last'.err = Nil)]_vars

\* a chat was added again under another username and the list kept the old entry
C8_Witness ==
    /\ last.op \in MemberAddOps
    /\ \E i \in 1..Len(StoredList(kv, last.key)) :
          /\ StoredList(kv, last.key)[i].ID = last.chat.ID
          /\ StoredList(kv, last.key)[i].Username # last.chat.Username

\* C9: a category list is the chats added to it and not removed since, in the
\* order of their first insertion; GetUsersFor... returns it, and a removal
\* takes out the entries of that identifier only, keeping the others in order.
C9_ListIsInsertionOrdered ==
    /\ [](\A k \in CategoryKeys :
            /\ GetChatsForKey(kv, k).err = Nil
            /\ IDsOf(StoredList(kv, k)) = member[k])
    /\ [](last.op \in MemberGetOps =>
            last.err = Nil /\ last.out = StoredList(kv, last.key))
    /\ [][last'.op \in MemberRemoveOps =>
            /\ last'.err = Nil
            /\ StoredList(kv', last'.key) =
                  SelectSeq(StoredList(kv, last'.key),
                            LAMBDA x : x.ID # last'.chat.ID)
            /\ \A j \in DOMAIN kv \ {last'.key} :
                  j \in DOMAIN kv' /\ kv'[j] = kv[j]]_vars

\* the first call on a list of MaxMembers chats was a removal that took one
\* chat out and left the others, the one with the larger identifier before
\* the one with the smaller, as they were inserted
C9_Witness ==
    /\ nops = 1
    /\ last.op \in MemberRemoveOps
    /\ LET l == StoredList(kv, last.key)
       IN /\ Len(l) = MaxMembers - 1
          /\ Len(l) >= 2
          /\ l[1].ID > l[2].ID
          /\ \A i \in 1..Len(l) : l[i].ID # last.chat.ID

\* C10: on a category key that is not in the store, GetUsersFor... returns an
\* empty sequence and no error, RemoveUserFrom... returns no error, and neither
\* changes the store.
C10_MissingCategoryKey ==
    [][(/\ last'.op \in MemberGetOps \cup MemberRemoveOps
        /\ last'.key \notin DOMAIN kv)
       => /\ last'.err = Nil
          /\ last'.out = <<>>
          /\ kv' = kv]_vars

\* a chat was removed from a category that was never written, next to other keys
C10_Witness ==
    /\ last.op \in MemberRemoveOps
    /\ last.key \notin DOMAIN kv
    /\ last.err = Nil
    /\ DOMAIN kv # {}

\* ------------------------------------------------- undecodable values
\* the call reads a stored value, or an entry of a stored list, that does not
\* decode: List on a value below its prefix, the category calls on their key
ReadsUndecodable(s, op, key) ==
    IF op = "List"
    THEN \E k \in DOMAIN s :
            HasPrefix(k, telegramChatsDirectory) /\ UnmarshalChat(s[k]).err # Nil
    ELSE /\ key \in DOMAIN s
         /\ \/ UnmarshalBytes(s[key]).err # Nil
            \/ \E i \in 1..Len(UnmarshalBytes(s[key]).items) :
                  UnmarshalChat(UnmarshalBytes(s[key]).items[i]).err # Nil

\* C11: whenever List, GetUsersFor..., AddUserTo... or RemoveUserFrom... reads
\* a stored value or a stored list entry that cannot be decoded, the call
\* returns an error and writes nothing.
C11_UndecodableIsPropagated ==
    [][(/\ last'.op \in {"List"} \cup MemberGetOps \cup MemberAddOps \cup MemberRemoveOps
        /\ ReadsUndecodable(kv, last'.op, last'.key))
       => /\ last'.err # Nil
          /\ kv' = kv]_vars

\* ------------------------------------------------------ the alert relay
\* C12: for each alert event the relay takes, it calls List; when List fails
\* or the list is empty nothing is rendered and nothing is sent; otherwise the
\* event is rendered once, and when the rendering succeeds one message goes to
\* each chat of the list, in list order, every message carrying the same text:
\* the rendering of the event, truncated (a failed rendering sends nothing).
C12_RelayRendersOnceSendsSameText ==
    relay.w # "" =>
        /\ relay.renders <= 1
        /\ relay.sends # <<>> =>
              relay.listErr = Nil /\ relay.renders = 1 /\ relay.renderErr = Nil
        /\ Len(relay.sends) <= Len(relay.chats)
        /\ LET text == truncateMessage(ExecuteHTMLString(relay.w).out)
           IN \A i \in 1..Len(relay.sends) :
                 /\ relay.sends[i].chat = relay.chats[i]
                 /\ relay.sends[i].text = text
        /\ task["sendWebhook"].pc = "select" =>
              /\ relay.listErr = List(kv).err
              /\ relay.listErr = Nil => relay.chats = List(kv).chats
              /\ (relay.listErr # Nil \/ relay.chats = <<>>) =>
                    relay.renders = 0 /\ relay.sends = <<>>
              /\ (relay.listErr = Nil /\ relay.chats # <<>>) =>
                    /\ relay.renders = 1
                    /\ relay.renderErr = ExecuteHTMLString(relay.w).err
                    /\ relay.renderErr # Nil => relay.sends = <<>>
                    /\ relay.renderErr = Nil => Len(relay.sends) = Len(relay.chats)

\* an event whose text had to be cut was sent to two chats
C12_Witness ==
    /\ relay.w # ""
    /\ task["sendWebhook"].pc = "select"
    /\ Len(relay.sends) = 2
    /\ Len(relay.sends[1].text) < Len(ExecuteHTMLString(relay.w).out)
    /\ relay.sends[1].text # TooLong
    /\ relay.sends[2].text = relay.sends[1].text

\* C13: for an event whose List and rendering succeeded, every chat of the list
\* gets exactly one send attempt, whichever of the sends fail: a failed send is
\* not repeated and does not stop the attempts that follow it.
C13_OneAttemptPerChat ==
    (/\ relay.w # ""
     /\ task["sendWebhook"].pc = "select"
     /\ relay.listErr = Nil
     /\ relay.renders = 1
     /\ relay.renderErr = Nil) =>
        \A i \in 1..Len(relay.chats) :
            Cardinality({j \in 1..Len(relay.sends) :
                            relay.sends[j].chat = relay.chats[i]}) = 1

\* the send to the first chat failed and the second chat was sent to
C13_Witness ==
    /\ relay.w # ""
    /\ task["sendWebhook"].pc = "select"
    /\ Len(relay.chats) = 2
    /\ Len(relay.sends) = 2
    /\ relay.sends[1].err # Nil
    /\ relay.sends[2].err = Nil

\* ------------------------------------------------------- truncateMessage
\* the places (from 0) of the blank lines that lie within the first SnipWindow
\* bytes of a text
BlankLines(str) ==
    {i \in 0..(SnipWindow - 2) :
        i + 2 <= Len(str) /\ str[i + 1] = "\n" /\ str[i + 2] = "\n"}

\* C14: truncateMessage returns a text of at most 4095 bytes unchanged; for a
\* longer text, with i the place of the last blank line within its first 4080
\* bytes, it returns the first i bytes followed by the snip marker when i > 1,
\* and the too-long sentinel in every other case (no blank line there, or the
\* last one at place 0 or 1).
C14_TruncateMessage ==
    fn.name = "truncateMessage" =>
        IF Len(fn.arg) <= MessageLimit THEN fn.res = fn.arg
        ELSE LET blank == BlankLines(fn.arg)
             IN IF \E i \in blank : i > 1
                THEN LET i == CHOOSE m \in blank : \A x \in blank : x <= m
                     IN fn.res = SubSeq(fn.arg, 1, i) \o SnipMarker
                ELSE fn.res = TooLong

\* a text over the limit was cut at a blank line that ends with the window
C14_Witness ==
    /\ fn.name = "truncateMessage"
    /\ Len(fn.arg) > MessageLimit
    /\ Len(fn.res) = SnipWindow - 2 + Len(SnipMarker)
    /\ SubSeq(fn.res, 1, SnipWindow - 2) = SubSeq(fn.arg, 1, SnipWindow - 2)

\* -------------------------------------------------------- the dispatcher
\* the sender of the processed message is one of the admins
FromAdmin == proc.message.Sender.ID \in {Admin, ExtraAdmin}

\* the text without its mentions of the bot: without the characters of every
\* place where "@" and the name of the bot stand
WithoutMentions(text) ==
    LET m == Len(commandSuffix)
        mention == {i \in 1..(Len(text) - m + 1) : SubSeq(text, i, i + m - 1) = commandSuffix}
        kept(i) == \A k \in mention : i < k \/ i >= k + m
        n == Cardinality({i \in 1..Len(text) : kept(i)})
        \* the place in the text of the j-th character that is kept
        at(j) == CHOOSE i \in 1..Len(text) :
                    kept(i) /\ Cardinality({k \in 1..i : kept(k)}) = j
    IN Join([j \in 1..n |-> CharAt(text, at(j))])

\* the text before its first space
BeforeFirstSpace(text) ==
    LET spaces == {i \in 1..Len(text) : CharAt(text, i) = " "}
        n == IF spaces = {} THEN Len(text)
             ELSE (CHOOSE i \in spaces : \A j \in spaces : i <= j) - 1
    IN SubSeq(text, 1, n)

\* the token the dispatcher looks up for a text
LookupToken(text) == BeforeFirstSpace(WithoutMentions(text))

\* the labels of the per-command counters
CommandLabels == DOMAIN commands

\* the counters are as before the message, but for the label, which is one higher
OnlyCounted(label) ==
    /\ Count(counters, label) = Count(proc.before, label) + 1
    /\ \A l \in (DOMAIN counters \cup DOMAIN proc.before) \ {label} :
          Count(counters, l) = Count(proc.before, l)

\* C15: a handler is invoked only if the message is not a service message, the
\* sender is an admin, the typing indicator was sent successfully and the
\* normalized token is in the command map, checked in this order: a service
\* message, whoever sent it, changes no counter, gets no typing indicator and
\* no reply and returns no error; a message that is dropped for its sender gets
\* no typing indicator; a failed typing indicator ends the processing with the
\* transport error, before any counter, reply or handler.
C15_HandlerOnlyAfterTheChecks ==
    proc.handled =>
        /\ proc.handler # "" =>
              /\ ~proc.message.Service
              /\ FromAdmin
              /\ proc.typing = <<proc.message.Chat>>
              /\ proc.typingErr = Nil
              /\ LookupToken(proc.message.Text) \in DOMAIN commands
        /\ proc.message.Service =>
              /\ counters = proc.before
              /\ proc.typing = <<>>
              /\ proc.replies = <<>>
              /\ proc.handler = ""
              /\ proc.err = Nil
        /\ (~proc.message.Service /\ ~FromAdmin) => proc.typing = <<>>
        /\ (~proc.message.Service /\ FromAdmin /\ proc.typingErr # Nil) =>
              /\ proc.err = proc.typingErr
              /\ counters = proc.before
              /\ proc.replies = <<>>
              /\ proc.handler = ""

\* a service message with a command, sent by someone who is no admin, was ignored
C15_Witness ==
    /\ proc.handled
    /\ proc.message.Service
    /\ ~FromAdmin
    /\ LookupToken(proc.message.Text) \in DOMAIN commands
    /\ proc.err = Nil

\* C16: a message that is not a service message and whose sender is no admin
\* adds one to the counter 'dropped' and ends with an error; no typing
\* indicator, no reply, no handler, no other counter and no change of the
\* store, whatever its text.
C16_ForbiddenSenderIsDropped ==
    (proc.handled /\ ~proc.message.Service /\ ~FromAdmin) =>
        /\ OnlyCounted("dropped")
        /\ proc.err # Nil
        /\ proc.typing = <<>>
        /\ proc.replies = <<>>
        /\ proc.handler = ""
        /\ kv = proc.kvBefore

\* a command of a sender who is no admin was dropped
C16_Witness ==
    /\ proc.handled
    /\ ~proc.message.Service
    /\ ~FromAdmin
    /\ proc.message.Text = "/chats"
    /\ proc.err = ErrDropped
    /\ Count(counters, "dropped") = 1

\* C17: a message of an admin that is not a service message and that reaches
\* the lookup (its typing indicator was sent) with a normalized token that is
\* not in the command map adds one to the counter 'incomprehensible', gets
\* exactly one reply, the fixed "Sorry, I don't understand...", to the chat it
\* came from, invokes no handler, changes no per-command counter and returns
\* no error.
C17_UnknownTokenIsAnswered ==
    (/\ proc.handled /\ ~proc.message.Service /\ FromAdmin /\ proc.typingErr = Nil
     /\ LookupToken(proc.message.Text) \notin DOMAIN commands) =>
        /\ OnlyCounted("incomprehensible")
        /\ proc.replies =
              <<Reply(proc.message.Chat, "Sorry, I don't understand...", <<>>)>>
        /\ proc.handler = ""
        /\ \A l \in CommandLabels : Count(counters, l) = Count(proc.before, l)
        /\ proc.err = Nil

\* a text that starts with a space in front of a command was not understood
C17_Witness ==
    /\ proc.handled
    /\ ~proc.message.Service
    /\ FromAdmin
    /\ proc.message.Text = " /help"
    /\ Len(proc.replies) = 1
    /\ Count(counters, "incomprehensible") = 1

\* the message of an admin that reached the lookup was dispatched on the token
\* that normalize gives for its text
DispatchedOn(normalize(_)) ==
    (proc.handled /\ ~proc.message.Service /\ FromAdmin /\ proc.typingErr = Nil) =>
        LET token == normalize(proc.message.Text)
        IN /\ proc.handler # "" <=> token \in DOMAIN commands
           /\ token \in DOMAIN commands =>
                 /\ OnlyCounted(token)
                 /\ proc.handler = commands[token]
                 /\ proc.arg = proc.message
                 /\ proc.err = Nil

\* C18 as stated: the token used for the lookup is the text with a trailing
\* '@botname' stripped and then cut at the first space; when it is one of the
\* eleven command tokens, that command's counter is one higher, that command's
\* handler was invoked once with the original message and no error is returned.
C18_TokenIsTextWithoutTrailingMention == DispatchedOn(CommandToken_TrailingOnly)

\* C18 amended: the token used for the lookup is the text with every
\* occurrence of '@botname' removed and then cut at the first space; when it
\* is one of the eleven command tokens, that command's counter is one higher,
\* that command's handler was invoked once with the original message and no
\* error is returned, whatever the handler did.
C18_TokenIsTextWithoutMentions == DispatchedOn(LookupToken)

\* a /mute with the mention between the command and its arguments was given to
\* the handler of /mute, with the text as it came
C18_Witness ==
    /\ proc.handled
    /\ proc.handler = "handleMute"
    /\ proc.message.Text = "/mute@bot environment[env1]"
    /\ proc.arg.Text = proc.message.Text
    /\ Count(counters, "/mute") = 1

\* ------------------------------------------------------------ the mute
\* C19: the handler of /mute parses the text of the message with
\* parseMuteCommand; when the text has none of the accepted forms the store is
\* left as it was and the one reply carries the error of the parser; otherwise
\* the reply that ends the handling is the confirmation.
C19_MuteParsesAndAnswers ==
    (proc.handled /\ proc.handler = "handleMute") =>
        LET r == parseMuteCommand(proc.message.Text, BotEnvironments, BotProjects)
        IN IF r.err # Nil
           THEN /\ kv = proc.kvBefore
                /\ proc.replies =
                      <<Reply(proc.message.Chat, "failed to parse mute command... %v",
                              <<r.err>>)>>
           ELSE /\ proc.replies # <<>>
                /\ proc.replies[Len(proc.replies)] =
                      Reply(proc.message.Chat,
                            "You were successfully subscribed to environments and/or projects",
                            <<>>)

\* the text has one of the three forms
Accepted(text) ==
    MatchProjectAndEnvironment(text) \/ MatchEnvironment(text) \/ MatchProject(text)

\* the names a text gives for a category: the words between the first
\* "<category>[" of the text, the category being a word of its own, and the
\* "]" that follows it
NamedIn(text, category) ==
    LET opens == {i \in 1..Len(text) :
                     /\ Literal(text, i, category \o "[") # 0
                     /\ CharAt(text, i - 1) \notin WordChars}
        first == CHOOSE i \in opens : \A j \in opens : i <= j
        open == Literal(text, first, category \o "[")
        closes == {k \in open..Len(text) : CharAt(text, k) = "]"}
        close == CHOOSE k \in closes : \A j \in closes : k <= j
        isWord(a, b) ==
            /\ \A k \in a..b : CharAt(text, k) \in WordChars
            /\ CharAt(text, a - 1) \notin WordChars
            /\ CharAt(text, b + 1) \notin WordChars
    IN IF opens = {} \/ closes = {} THEN {}
       ELSE {SubSeq(text, w[1], w[2]) :
                w \in {x \in (open..(close - 1)) \X (open..(close - 1)) :
                          x[1] <= x[2] /\ isWord(x[1], x[2])}}

\* the categories a text names: both in the first form, else the one of the
\* second or of the third form
Names(text, category) ==
    IF MatchProjectAndEnvironment(text) THEN TRUE
    ELSE IF MatchEnvironment(text) THEN category = "environment"
    ELSE category = "project"

\* the names of a universe that a text does not give, in the order of the universe
KeepSet(all, text, category) ==
    SelectSeq(all, LAMBDA x : x \notin NamedIn(text, category))

\* C20: for every text in an accepted form parseMuteCommand returns no error,
\* for each category the text names the universe without the names given, in
\* the order of the universe (a name that is not in the universe changes
\* nothing), and for a category the text does not name the whole universe.
C20_ParserReturnsTheKeepSets ==
    (fn.name = "parseMuteCommand" /\ Accepted(fn.arg.text)) =>
        /\ ~fn.res.panic
        /\ fn.res.err = Nil
        /\ fn.res.environments =
              IF Names(fn.arg.text, "environment")
              THEN KeepSet(fn.arg.environments, fn.arg.text, "environment")
              ELSE fn.arg.environments
        /\ fn.res.projects =
              IF Names(fn.arg.text, "project")
              THEN KeepSet(fn.arg.projects, fn.arg.text, "project")
              ELSE fn.arg.projects

\* ------------------------------------------------- the forms of the mute
\* the first of the three forms that the text matches, in the order both
\* categories, environment only, project only
FirstForm(text) ==
    IF MatchProjectAndEnvironment(text) THEN "both"
    ELSE IF MatchEnvironment(text) THEN "environment"
    ELSE IF MatchProject(text) THEN "project"
    ELSE "none"

\* the categories a form filters
FormNames(form, category) == form = "both" \/ form = category

\* the universe without the values the text gives for the category
Filtered(all, text, category) ==
    arrayDifference(all, ValuesOf(FindValues(text, category).group))

\* C21: the result of parseMuteCommand is the one of the first form the text
\* matches, in the order both categories, environment only, project only: a
\* call that returns filters exactly the categories of that form and returns
\* the empty list for the other; the call fails with the NoMatch error and two
\* empty lists exactly when the text matches none of the three forms.
C21_FirstMatchingFormDecides ==
    fn.name = "parseMuteCommand" =>
        LET text == fn.arg.text
            form == FirstForm(text)
        IN /\ (~fn.res.panic /\ fn.res.err = ErrNoMatch) <=> (form = "none")
           /\ form = "none" => fn.res = Parsed(<<>>, <<>>, ErrNoMatch)
           /\ fn.res.panic => form # "none"
           /\ (form # "none" /\ ~fn.res.panic) =>
                 /\ fn.res.err = Nil
                 /\ fn.res.environments =
                       IF FormNames(form, "environment")
                       THEN Filtered(fn.arg.environments, text, "environment")
                       ELSE <<>>
                 /\ fn.res.projects =
                       IF FormNames(form, "project")
                       THEN Filtered(fn.arg.projects, text, "project")
                       ELSE <<>>

\* a text of the first form, which is a text of the second form as well, was
\* parsed and both categories were filtered
C21_Witness ==
    /\ fn.name = "parseMuteCommand"
    /\ MatchProjectAndEnvironment(fn.arg.text) /\ MatchEnvironment(fn.arg.text)
    /\ ~fn.res.panic
    /\ fn.res.err = Nil
    /\ fn.res.projects # <<>>
    /\ Len(fn.res.projects) < Len(fn.arg.projects)

\* ------------------------------------------------------ /start and /stop
\* the chats List returns, as a set
Listed(s) == {List(s).chats[i] : i \in 1..Len(List(s).chats)}

\* C26: handling /start sends the welcome to the chat of the message and
\* nothing else and leaves every key of the store as it was, so that a chat
\* that was not listed before is not listed afterwards; handling /stop sends
\* the farewell and leaves every key as it was, so that a listed chat stays
\* listed.
C26_StartAndStopLeaveTheStore ==
    (proc.handled /\ proc.handler \in {"handleStart", "handleStop"}) =>
        /\ kv = proc.kvBefore
        /\ Listed(kv) = Listed(proc.kvBefore)
        /\ List(kv).err = List(proc.kvBefore).err
        /\ proc.replies =
              <<Reply(proc.message.Chat,
                      IF proc.handler = "handleStart" THEN "responseStart"
                      ELSE "responseStop", <<proc.message.Sender.FirstName>>)>>

\* /start was handled for a chat that List did not return before
C26_Witness ==
    /\ proc.handled
    /\ proc.handler = "handleStart"
    /\ List(proc.kvBefore).err = Nil
    /\ proc.message.Chat \notin Listed(proc.kvBefore)
    /\ proc.replies # <<>>

\* ------------------------------------------------------------ the admins
\* C27: whatever admin NewBot was given and whatever identifiers the
\* WithExtraAdmins options gave, in whatever order and however often,
\* isAdminID(id) is true exactly when id is the admin of NewBot or one of the
\* identifiers of the options.
C27_AdminsAreTheConfigured ==
    fn.name = "isAdminID" =>
        (fn.res.ok <=> (fn.arg.id = fn.arg.admin \/ fn.arg.id \in fn.arg.extra))

\* an identifier smaller than the admin of NewBot, given by an option together
\* with a larger one in descending order, was asked for and found
C27_Witness ==
    /\ fn.name = "isAdminID"
    /\ fn.arg.id < fn.arg.admin
    /\ fn.arg.id \in fn.arg.extra
    /\ \E x \in fn.arg.extra : x > fn.arg.admin
    /\ fn.arg.options = MaxOptions
    /\ fn.res.ok

\* ------------------------------------------- the length of what is sent
\* C28: whatever the text, truncateMessage returns at most 4095 bytes, and
\* what it returns is the text itself, or a prefix of the text followed by the
\* snip marker, or the too-long sentinel.
C28_TruncatedFitsTheLimit ==
    fn.name = "truncateMessage" =>
        /\ Len(fn.res) <= MessageLimit
        /\ \/ fn.res = fn.arg
           \/ fn.res = TooLong
           \/ /\ Len(fn.res) >= Len(SnipMarker)
              /\ Len(fn.res) - Len(SnipMarker) <= Len(fn.arg)
              /\ fn.res = SubSeq(fn.arg, 1, Len(fn.res) - Len(SnipMarker)) \o SnipMarker

\* a text over the limit, with a blank line across the end of the window or
\* behind it, was cut to the longest result there is
C28_Witness ==
    /\ fn.name = "truncateMessage"
    /\ Len(fn.arg) > MessageLimit
    /\ \E i \in (SnipWindow - 1)..(Len(fn.arg) - 2) :
          fn.arg[i + 1] = "\n" /\ fn.arg[i + 2] = "\n"
    /\ fn.res # TooLong
    /\ Len(fn.res) = SnipWindow - 2 + Len(SnipMarker)

\* ---------------------------------------------------------- cancellation
\* the entries of the history of an actor with the given operation
Entries(t, op) == {i \in 1..Len(trace[t]) : trace[t][i].op = op}

\* C22: an actor receives no message and no alert event once the context is
\* cancelled, those that its channel held at the cancellation included, and
\* Run returns only after both actors have returned.
C22_NothingStartsAfterCancel ==
    /\ \A t \in Actors : \A i \in Entries(t, "receive") : ~trace[t][i].arg
    /\ task["Run"].pc = "returned" => \A t \in Actors : task[t].pc = "returned"

\* ------------------------------------------------------------- failures
\* the actor is done with the n-th unit of work of its channel
Finished(t, n) ==
    \/ Received(t) > n
    \/ Received(t) = n /\ task[t].pc \in {"select", "returned"}

\* C23: while the context is not cancelled no actor returns, whatever failed:
\* a message dropped for its sender, a typing action that failed, a List or a
\* rendering that failed, a SendMessage that failed; and every message and
\* every alert event put on a channel is received and worked off: again and
\* again each actor is done with everything its channel was given so far.
C23_NoFailureEndsAnActor ==
    /\ [](\A t \in Actors : task[t].pc # "returned")
    /\ \A t \in Actors : []<>Finished(t, Queued(t))

\* the message loop dropped its first message, or could not send the typing
\* action for it, and has processed the second
C23_Witness ==
    /\ ~done
    /\ \E i \in Entries("messageLoop", "process") :
          trace["messageLoop"][i].n = 1 /\ trace["messageLoop"][i].err # Nil
    /\ Finished("messageLoop", 2)

\* ------------------------------------------------- one message at a time
\* the message loop receives a message only when it has processed the one
\* before to its end: its history is receive, process, receive, process, ...,
\* each process for the message just received
OneMessageAtATime ==
    LET h == trace["messageLoop"]
    IN /\ \A i \in 1..Len(h) :
             IF i % 2 = 1
             THEN h[i].op = "receive" /\ h[i].n = (i + 1) \div 2
             ELSE h[i].op = "process" /\ h[i].n = i \div 2
       /\ task["messageLoop"].pc \in {"process", "lookup", "handler", "reply"}
             <=> Len(h) % 2 = 1

\* --------------------------------------------------- one event at a time
\* the entries of the history of sendWebhook for its n-th event, in order
EventEntries(n) == SelectSeq(trace["sendWebhook"], LAMBDA e : e.n = n)

\* the chats the messages of the n-th event were sent to, in order
SentTo(n) ==
    LET sends == SelectSeq(EventEntries(n), LAMBDA e : e.op = "SendMessage")
    IN [k \in 1..Len(sends) |-> sends[k].arg]

\* the chats List returned for the n-th event when its rendering succeeded,
\* and no chat otherwise
FanOut(n) ==
    LET e == EventEntries(n)
    IN IF Len(e) >= 3 /\ e[2].op = "List" /\ e[3].op = "render" /\ e[3].err = Nil
       THEN e[2].arg ELSE <<>>

\* C25: sendWebhook works its events off one after the other in the order of
\* the channel: the entries of its history are in the order of the events;
\* when the next event is received the messages of the one before have been
\* sent to every chat List returned for it, in the order of List; so the
\* messages a chat gets are in the order of the events.
C25_EventsInOrder ==
    LET h == trace["sendWebhook"]
    IN /\ \A i \in 1..Len(h) : \A j \in i..Len(h) : h[i].n <= h[j].n
       /\ \A i \in 1..Len(h) : h[i].op = "receive" <=> (i = 1 \/ h[i - 1].n < h[i].n)
       /\ \A n \in 1..(Received("sendWebhook") - 1) : SentTo(n) = FanOut(n)

\* two events were received; the first was sent to two chats
C25_Witness ==
    /\ Received("sendWebhook") = 2
    /\ Len(SentTo(1)) = 2
    /\ Len(SentTo(2)) >= 1

\* ------------------------------------------------------ the list in hand
\* C29: the chats an event is sent to are those List returned for it, in that
\* order, whatever chat was added to the store or removed from it since: at
\* every moment the chats sent to are the first ones of that list, and all of
\* it when sendWebhook is done with the event; and no step of sendWebhook
\* changes a key of the store.
C29_RelayUsesTheListItTook ==
    /\ [](\A n \in 1..Received("sendWebhook") :
             LET sent == SentTo(n)
                 list == FanOut(n)
             IN /\ Len(sent) <= Len(list)
                /\ sent = SubSeq(list, 1, Len(sent))
                /\ Finished("sendWebhook", n) => sent = list)
    /\ [][(\/ task'["sendWebhook"] # task["sendWebhook"]
            \/ trace'["sendWebhook"] # trace["sendWebhook"]) => kv' = kv]_vars

\* sendWebhook has sent to the first chat of its list and is about to send to
\* the second, and List would by now return other chats
C29_Witness ==
    /\ task["sendWebhook"].pc = "send"
    /\ task["sendWebhook"].i = 2
    /\ List(kv).chats # task["sendWebhook"].chats
    /\ Len(SentTo(Received("sendWebhook"))) = 1

====
